---- MODULE Spec2Model ----
(***************************************************************************)
(* Payment orchestration of the ModoFit storefront: the saga               *)
(* procesarPagoCompleto (controllers/controllersql.js) and the OpenPay     *)
(* service it drives (services/openpayService.js: audited gateway calls,   *)
(* retry with backoff, payment session, virtual cash register).            *)
(*                                                                         *)
(* Tables are sequences of rows; the IDENTITY key of a row is its index,   *)
(* so "SELECT TOP 1 id ... ORDER BY id DESC" is the index of the last      *)
(* matching row.  The number 0 stands for a null or undefined id.  Every   *)
(* row carries the ghost field run: the saga run that inserted it.         *)
(***************************************************************************)
EXTENDS Integers, Sequences, FiniteSets, TLC

\* ------------------------------------------------------------------ bounds
\* Environment faults (a failed query, a non-2xx gateway answer, a rejected
\* precondition of a gateway operation) one behaviour may contain.
MaxFaults == 3

\* Environment faults of a behaviour that exercises the rate limiter.
MaxFallosLimite == 1

\* Environment faults of a behaviour that exercises the idempotency cache.
MaxFallosCache == 1

\* Environment faults of a behaviour that exercises the cash register.
MaxFallosCaja == 1

\* Calls a direct caller of the service makes.
MaxLlamadas == 2

\* Calls the direct caller makes in a behaviour that exercises the rate limiter.
MaxLlamadasLimite == 1

\* Calls with invalid data an outside caller makes in one rate-limit window.
MaxRafaga == 32

\* Properties a payload given to generateIdempotencyKey on its own may have.
MaxProps == 3

\* Saga runs of the model; Solo are the runs that execute under Spec.
Sagas == {1, 2}
Solo == {1}

\* Amounts (montoPlan) a checkout may carry.
Montos == {100}

\* The last day of a behaviour of one registrar (it starts on day 2).
MaxDia == 3

\* Faults in a behaviour of two checkouts of one buyer at the same time.
MaxFallosCliente == 1

\* Faults in a behaviour that starts at the confirmarPedido endpoint.
MaxFallosPedido == 1

\* States a gateway subscription may be created in (response.data.status).
EstadosSuscripcion == {"active", "completed", "past_due"}

\* HTTP outcomes of one gateway attempt; 0 is "no response" (timeout, network).
HttpStatuses == {200, 400, 401, 403, 422, 500, 0}

\* result[0] of sequelize.query for an INSERT with an OUTPUT clause: the list of
\* the rows, as crearUsuario reads it (result[0]?.[0]), or the row itself, as
\* crearVentaVirtual reads it (resultventa[0]?.idven).  The library is not part
\* of the repository, so a behaviour has either shape, the same for both.
FormasInsert == {"filas", "fila"}

\* ------------------------------------------------------- program constants
RATE_LIMIT_WINDOW_MS == 60000
RATE_LIMIT_MAX_REQUESTS == 30
MAX_RETRIES == 3
RETRY_DELAY_MS == 1000
RETRY_BACKOFF_MULTIPLIER == 2
operationCacheTTL == 300000
MIN_AMOUNT == 1
MAX_AMOUNT == 50000

VARIABLES
    pc,                      \* pc[s]: position of run s in procesarPagoCompleto
    loc,                     \* loc[s]: the local variables of run s
    call,                    \* call[s]: the _executeWithLogging call in progress
    datos,                   \* datos[s]: the checkout request of run s
    formaInsert,             \* what sequelize.query returns for INSERT ... OUTPUT
    reloj,                   \* Date.now(), in milliseconds
    requestCount,            \* this._requestCount
    rateLimitResetTime,      \* this._rateLimitResetTime
    operationCache,          \* this._operationCache, as its set of entries
    ventana,                 \* ghost: the rate-limit window as a caller observes it
    recibido,                \* ghost: recibido[s], what the service returned to caller s
    ensayo,                  \* operands and results of the functions applied on their own
    budget,                  \* environment events (faults, outside calls) still available
    hoy,                     \* CAST(GETDATE() AS DATE), as a day number
    PasarelaSesion,
    PasarelaSesionHistorial,
    usuario,
    PasarelaCliente,
    PasarelaTarjeta,
    PasarelaSuscripcion,
    PasarelaTransaccion,
    Caja,                    \* Caja (tipocaja='V') joined with CajaDetallePasarela
    Venta,
    VentaDetalle,
    Membresia,
    PasarelaApiLog,
    PasarelaAuditoria,
    gwSeq,                   \* last id the gateway issued
    gwReq                    \* gwReq[s][op]: HTTP requests run s sent for op

tReq == <<datos, formaInsert, hoy>>
tLimite == <<requestCount, rateLimitResetTime, ventana>>
tServicio == <<reloj, tLimite, operationCache, recibido>>
tEnt == <<tReq, tServicio, ensayo>>
tSesion == <<PasarelaSesion, PasarelaSesionHistorial>>
tCadena == <<usuario, PasarelaCliente, PasarelaTarjeta, PasarelaSuscripcion>>
tVenta == <<Venta, VentaDetalle, Membresia>>
tLog == <<PasarelaApiLog, PasarelaAuditoria>>
tGw == <<gwSeq, gwReq>>

vars == <<pc, loc, call, tEnt, budget, tSesion, tCadena, PasarelaTransaccion,
          Caja, tVenta, tLog, tGw>>

\* ----------------------------------------------------------------- helpers
Ops == {"CREATE_CUSTOMER", "ASSOCIATE_CARD", "CREATE_SUBSCRIPTION", "CANCEL_SUBSCRIPTION"}

Last(seq) == seq[Len(seq)]

\* The id SELECT TOP 1 ... ORDER BY id DESC returns among the ids S.
Max(S) == CHOOSE x \in S : \A y \in S : y <= x

RECURSIVE Pow(_, _)
Pow(b, n) == IF n <= 0 THEN 1 ELSE b * Pow(b, n - 1)

\* -------------------------------------------------- generateIdempotencyKey
\* A payload is a JavaScript object: its properties <<name, value>> in insertion
\* order, no name twice.  Indefinido is the value undefined.
Indefinido == "undefined"

\* The property names in the order Array.prototype.sort() gives them.
OrdenClaves ==
    << "a", "b", "c", "customerId", "email", "external_id", "operation", "planId" >>

Range(f) == {f[i] : i \in DOMAIN f}

\* Object.keys(data)
ObjectKeys(data) == [i \in DOMAIN data |-> data[i][1]]

\* keys.sort()
SortKeys(keys) == SelectSeq(OrdenClaves, LAMBDA k : k \in Range(keys))

\* data[k]
ValorDe(data, k) ==
    IF k \in Range(ObjectKeys(data))
    THEN data[CHOOSE i \in DOMAIN data : data[i][1] = k][2]
    ELSE Indefinido

\* JSON.stringify(data, replacer) with an array replacer: the properties named by
\* the replacer, in the replacer's order, those of value undefined left out.
JsonStringify(data, replacer) ==
    LET presentes == SelectSeq(replacer, LAMBDA k : ValorDe(data, k) # Indefinido)
    IN  [i \in DOMAIN presentes |-> <<presentes[i], ValorDe(data, presentes[i])>>]

\* crypto.createHash('sha256').update(texto).digest('hex').substring(0, 32),
\* taken to be free of collisions: equal digests are digests of equal texts.
Sha256Hex32(texto) == [sha256 |-> texto]

\* A key made of the properties in insertion order.
GenerateIdempotencyKeySinOrden(data) ==
    Sha256Hex32(JsonStringify(data, ObjectKeys(data)))

\* generateIdempotencyKey(data)
GenerateIdempotencyKey(data) ==
    Sha256Hex32(JsonStringify(data, SortKeys(ObjectKeys(data))))

\* The key of an operation that has none (asociarTarjeta).
SinClave == Sha256Hex32(<<>>)

\* ------------------------------------------------------------ rate limiter
\* A limiter that rejects the call that reaches the maximum.
CheckRateLimitEstricto(now, count, resetTime) ==
    LET vencida == now - resetTime > RATE_LIMIT_WINDOW_MS
        n == (IF vencida THEN 0 ELSE count) + 1
    IN  [ requestCount |-> n,
          rateLimitResetTime |-> IF vencida THEN now ELSE resetTime,
          pasa |-> ~(n >= RATE_LIMIT_MAX_REQUESTS) ]

\* _checkRateLimit(): the counter and the reset time it leaves, and whether it
\* returns (pasa) or throws the rate-limit error.
CheckRateLimit(now, count, resetTime) ==
    LET vencida == now - resetTime > RATE_LIMIT_WINDOW_MS
        n == (IF vencida THEN 0 ELSE count) + 1
    IN  [ requestCount |-> n,
          rateLimitResetTime |-> IF vencida THEN now ELSE resetTime,
          pasa |-> ~(n > RATE_LIMIT_MAX_REQUESTS) ]

\* ------------------------------------------------------ idempotency cache
\* A sweep that drops an entry at the instant its life ends.
CleanExpiredOperationsEstricto(cache, now) ==
    {e \in cache : ~(now - e.timestamp >= operationCacheTTL)}

\* A purge that removes nothing.
CleanExpiredOperationsNunca(cache, now) == cache

\* _cleanExpiredOperations()
CleanExpiredOperations(cache, now) ==
    {e \in cache : ~(now - e.timestamp > operationCacheTTL)}

\* _checkIdempotency(key): the cache it leaves and the entries it finds
CheckIdempotency(cache, key, now) ==
    {e \in CleanExpiredOperations(cache, now) : e.key = key}

\* A check that reserves the key it does not find.
CacheTrasCheckReserva(cache, key, now) ==
    IF CheckIdempotency(cache, key, now) # {}
    THEN CleanExpiredOperations(cache, now)
    ELSE CleanExpiredOperations(cache, now)
            \cup {[key |-> key, result |-> [reservado |-> TRUE], timestamp |-> now]}

\* _checkIdempotency(key): the cache it leaves, purged and with nothing added
CacheTrasCheck(cache, key, now) == CleanExpiredOperations(cache, now)

\* _registerOperation(key, result): Map.set replaces the entry of the key
RegisterOperation(cache, key, result, now) ==
    {e \in cache : e.key # key} \cup {[key |-> key, result |-> result, timestamp |-> now]}

\* ------------------------------------------------------ _executeWithRetry
\* A retry loop that takes 422 for a retryable status.
IsNonRetryableSin422(status) == status \in {400, 401, 403}

\* Statuses the retry loop rethrows at once.
IsNonRetryable(status) == status \in {400, 401, 403, 422}

\* A wait that does not grow with the attempts.
RetryDelayFijo(attempt) == RETRY_DELAY_MS

\* The wait after a failed attempt.
RetryDelay(attempt) == RETRY_DELAY_MS * Pow(RETRY_BACKOFF_MULTIPLIER, attempt - 1)

\* A loop without a last attempt.
MayRetrySiempre(attempt) == TRUE

\* An attempt may still follow the failed attempt number `attempt`.
MayRetry(attempt) == attempt < MAX_RETRIES

\* An error log that loses the status of the response.
ErrHttpStatusCode500(status) == 500

\* httpstatuscode _executeWithLogging records for an error.
ErrHttpStatusCode(status) == IF status = 0 THEN 500 ELSE status

\* ---------------------------------------------------------------- validation
\* A text is the sequence of its characters.  A missing (undefined) argument is
\* the empty text: sanitizeString returns '' for what is not a string, and
\* !undefined is true as !'' is.
Digitos == << "0", "1", "2", "3", "4", "5", "6", "7", "8", "9" >>
Prohibidos == {"<", ">", "\"", "'", "%", ";", "(", ")", "&", "+"}
EsDigito(c) == c \in Range(Digitos)
ValorDigito(c) == (CHOOSE i \in DOMAIN Digitos : Digitos[i] = c) - 1

\* str.trim()
RECURSIVE TrimIzquierda(_)
TrimIzquierda(t) ==
    IF t # <<>> /\ Head(t) = " " THEN TrimIzquierda(Tail(t)) ELSE t

RECURSIVE TrimDerecha(_)
TrimDerecha(t) ==
    IF t # <<>> /\ Last(t) = " " THEN TrimDerecha(SubSeq(t, 1, Len(t) - 1)) ELSE t

Trim(t) == TrimDerecha(TrimIzquierda(t))

\* sanitizeString(str, maxLength): trim, cut to maxLength, drop < > " ' % ; ( ) & +
SanitizeString(str, maxLength) ==
    LET cortado == SubSeq(Trim(str), 1, IF Len(Trim(str)) < maxLength
                                        THEN Len(Trim(str)) ELSE maxLength)
    IN  SelectSeq(cortado, LAMBDA c : c \notin Prohibidos)

\* An amount as a request carries it: a number (whole soles), or a text.
Numero(n) == [tipo |-> "number", n |-> n, texto |-> <<>>]
Texto(t) == [tipo |-> "string", n |-> 0, texto |-> t]

\* The digits a text begins with.
RECURSIVE PrefijoDigitos(_)
PrefijoDigitos(t) ==
    IF t # <<>> /\ EsDigito(Head(t)) THEN <<Head(t)>> \o PrefijoDigitos(Tail(t)) ELSE <<>>

RECURSIVE ValorDigitos(_)
ValorDigitos(d) ==
    IF d = <<>> THEN 0 ELSE 10 * ValorDigitos(SubSeq(d, 1, Len(d) - 1)) + ValorDigito(Last(d))

\* parseFloat(amount): the number itself; of a text, after its leading blanks,
\* an optional sign and the digits that follow, NaN when there are none.
ParseFloat(amount) ==
    IF amount.tipo = "number" THEN [nan |-> FALSE, n |-> amount.n]
    ELSE LET t == TrimIzquierda(amount.texto)
             neg == t # <<>> /\ Head(t) = "-"
             resto == IF t # <<>> /\ Head(t) \in {"-", "+"} THEN Tail(t) ELSE t
             d == PrefijoDigitos(resto)
         IN  IF d = <<>> THEN [nan |-> TRUE, n |-> 0]
             ELSE [nan |-> FALSE, n |-> IF neg THEN 0 - ValorDigitos(d) ELSE ValorDigitos(d)]

\* validateAmount(amount): throws (ok FALSE) or returns the amount; on whole
\* soles Math.round(n * 100) / 100 is n.
ValidateAmount(amount) ==
    LET p == ParseFloat(amount) IN
    IF p.nan THEN [ok |-> FALSE, valor |-> 0]
    ELSE IF p.n < MIN_AMOUNT THEN [ok |-> FALSE, valor |-> 0]
    ELSE IF p.n > MAX_AMOUNT THEN [ok |-> FALSE, valor |-> 0]
    ELSE [ok |-> TRUE, valor |-> p.n]

\* ------------------------------------------------------- maskSensitiveData
\* Property names and string values are texts (sequences of characters).
SensitiveFields ==
    { << "p", "r", "i", "v", "a", "t", "e", "k", "e", "y" >>,
      << "p", "u", "b", "l", "i", "c", "k", "e", "y" >>,
      << "p", "a", "s", "s", "w", "o", "r", "d" >>,
      << "t", "o", "k", "e", "n" >>,
      << "s", "e", "c", "r", "e", "t" >>,
      << "a", "p", "i", "_", "k", "e", "y" >>,
      << "c", "a", "r", "d", "_", "n", "u", "m", "b", "e", "r" >>,
      << "c", "v", "v" >>,
      << "c", "v", "v", "2" >>,
      << "c", "v", "c" >>,
      << "e", "x", "p", "i", "r", "a", "t", "i", "o", "n" >>,
      << "p", "i", "n" >>,
      << "a", "c", "c", "o", "u", "n", "t", "_", "n", "u", "m", "b", "e", "r" >>,
      << "r", "o", "u", "t", "i", "n", "g", "_", "n", "u", "m", "b", "e", "r" >>,
      << "s", "s", "n" >>,
      << "d", "n", "i" >> }

Mayusculas == << "A", "B", "C", "D", "E", "F", "G", "H", "I", "J", "K", "L", "M",
                "N", "O", "P", "Q", "R", "S", "T", "U", "V", "W", "X", "Y", "Z" >>
Minusculas == << "a", "b", "c", "d", "e", "f", "g", "h", "i", "j", "k", "l", "m",
                "n", "o", "p", "q", "r", "s", "t", "u", "v", "w", "x", "y", "z" >>

\* key.toLowerCase()
ToLowerCase(t) ==
    [ i \in DOMAIN t |->
        IF t[i] \in Range(Mayusculas)
        THEN Minusculas[CHOOSE k \in DOMAIN Mayusculas : Mayusculas[k] = t[i]]
        ELSE t[i] ]

\* t.includes(sub)
Includes(t, sub) ==
    \E i \in 1..(Len(t) - Len(sub) + 1) : SubSeq(t, i, i + Len(sub) - 1) = sub

\* value.slice(-n)
SliceFinal(t, n) == IF Len(t) <= n THEN t ELSE SubSeq(t, Len(t) - n + 1, Len(t))

\* value.substring(0, n)
Substring0(t, n) == SubSeq(t, 1, IF Len(t) < n THEN Len(t) ELSE n)

\* value.replace(/\s|-/g, '')
SinEspaciosNiGuiones(t) == SelectSeq(t, LAMBDA c : c \notin {" ", "-"})

\* cardPattern.test(t): /^\d{13,19}$/
CardPattern(t) == Len(t) \in 13..19 /\ \A i \in DOMAIN t : EsDigito(t[i])

Estrellas(n) == [i \in 1..n |-> "*"]

\* maskSensitiveData: what the loop stores in masked[key] for a string or a number
MaskValue(key, value) ==
    IF \E field \in SensitiveFields : Includes(ToLowerCase(key), field)
    THEN IF value.tipo = "string" /\ Len(value.texto) > 8
         THEN Texto(Substring0(value.texto, 4) \o Estrellas(4) \o SliceFinal(value.texto, 4))
         ELSE Texto(Estrellas(4))
    ELSE IF value.tipo = "string" /\ CardPattern(SinEspaciosNiGuiones(value.texto))
    THEN Texto(Substring0(SinEspaciosNiGuiones(value.texto), 6) \o Estrellas(6)
               \o SliceFinal(SinEspaciosNiGuiones(value.texto), 4))
    ELSE value

\* maskSensitiveData(data) of a flat object: its properties <<name, value>>, in
\* insertion order, each value masked.
MaskSensitiveData(data) ==
    [i \in DOMAIN data |-> << data[i][1], MaskValue(data[i][1], data[i][2]) >>]

\* ------------------------------------------------------------------- state
LocInit ==
    [ sesionOk |-> FALSE, idsesionpas |-> 0,
      idusu |-> 0, usuarioEsNuevo |-> FALSE, clienteOk |-> FALSE,
      idclipas |-> 0, idcliext |-> 0,
      tarjetaId |-> 0, tarjetaApilog |-> 0, idtarjpas |-> 0,
      suscId |-> 0, suscStatus |-> "", suscApilog |-> 0, idsuscpas |-> 0,
      transOk |-> FALSE, idtranspas |-> 0, idcajaTx |-> 0,
      idcaja |-> 0, ventaOk |-> FALSE, idven |-> 0, membOk |-> FALSE, idmem |-> 0,
      error |-> "", errStatus |-> 0, result |-> "none", fallos |-> {} ]

SalidaNula == [tipo |-> "", err |-> 0, respId |-> 0, idapilog |-> 0]

\* entrada, inicio, propia, traza and salida are ghosts: how the operation was let
\* in ("limite", "rechazo", "cache", "gateway"), when, the log row this call inserted,
\* the steps _executeWithLogging has taken, and what it returned or threw.
CallIdle ==
    [ stage |-> "idle", op |-> "", key |-> SinClave, idapilog |-> 0, attempt |-> 0,
      statuses |-> <<>>, waits |-> <<>>, ok |-> FALSE, respId |-> 0, respStatus |-> "",
      entrada |-> "", inicio |-> 0, propia |-> 0, traza |-> <<>>, salida |-> SalidaNula ]

Dni(s) == datos[s].dni

\* req.body of a checkout.
Pedido(dni, monto, token, device, plan) ==
    [ dni |-> dni, montoPlan |-> monto, tokenTarjeta |-> token,
      deviceSessionId |-> device, planId |-> plan ]

TokenValido == << "t", "k" >>
DeviceValido == << "d" >>
PlanValido == << "p" >>

\* The value of montcomision and montiva in a new CajaDetallePasarela row: the
\* INSERT does not name them and the table definition is not in the sources;
\* a register opens "with zero totals".
TotalPorDefecto == 0

\* A new CajaDetallePasarela row.  aplicadas is a ghost: the amounts added to the
\* row so far.
DetalleRow ==
    [ canttransacciones |-> 0, montbruto |-> 0, montcomision |-> TotalPorDefecto,
      montiva |-> TotalPorDefecto, montneto |-> 0, aplicadas |-> <<>> ]

\* A register of day dia: the Caja row (tipocaja 'V') with dets, the
\* CajaDetallePasarela rows of its idcaja.
CajaRow(dia, est) ==
    [ estcaja |-> est, fecoperacion |-> dia, cierre |-> FALSE, montfincaja |-> 0,
      dets |-> << DetalleRow >> ]

InitTablas ==
    /\ PasarelaSesion = <<>>
    /\ PasarelaSesionHistorial = <<>>
    /\ \E existe \in BOOLEAN, mirror \in BOOLEAN :
         /\ mirror => existe
         /\ usuario = IF existe THEN << [dniusu |-> "D1", run |-> 0] >> ELSE <<>>
         /\ PasarelaCliente =
              IF mirror
              THEN << [idusu |-> 1, dniusu |-> "D1", idcliext |-> 1, estado |-> "S", run |-> 0] >>
              ELSE <<>>
         /\ gwSeq = IF mirror THEN 1 ELSE 0
    /\ PasarelaTarjeta = <<>>
    /\ PasarelaSuscripcion = <<>>
    /\ PasarelaTransaccion = <<>>
    /\ Caja \in { <<>>, << CajaRow(hoy, "S") >>, << CajaRow(hoy - 1, "S") >> }
    /\ Venta = <<>>
    /\ VentaDetalle = <<>>
    /\ Membresia = <<>>
    /\ PasarelaApiLog = <<>>
    /\ PasarelaAuditoria = <<>>
    /\ gwReq = [s \in Sagas |-> [o \in Ops |-> 0]]

\* The service as its constructor leaves it, at the time of its construction.
VentanaInit == [inicio |-> 0, n |-> 0, pasa |-> TRUE]

InitServicio ==
    /\ reloj = 0
    /\ requestCount = 0
    /\ rateLimitResetTime = 0
    /\ operationCache = {}
    /\ ventana = VentanaInit
    /\ recibido = [s \in Sagas |-> <<>>]

EnsayoNulo == [fn |-> ""]

Init ==
    /\ pc = [s \in Sagas |-> "p1_crearSesion"]
    /\ loc = [s \in Sagas |-> LocInit]
    /\ call = [s \in Sagas |-> CallIdle]
    /\ \E m \in Montos : datos = [s \in Sagas |-> Pedido("D1", m, TokenValido, DeviceValido, PlanValido)]
    /\ formaInsert \in FormasInsert
    /\ budget = MaxFaults
    /\ hoy = 2
    /\ InitServicio
    /\ ensayo = EnsayoNulo
    /\ InitTablas

\* One environment fault is consumed.
Falla == budget > 0 /\ budget' = budget - 1
SinFalla == UNCHANGED budget

\* A query of run s failed (the error is caught by the function that ran it).
FallaDb(s, l) == [l EXCEPT !.fallos = @ \cup {pc[s]}]

Goto(s, p) == pc' = [pc EXCEPT ![s] = p]
SetLoc(s, l) == loc' = [loc EXCEPT ![s] = l]

\* throw new Error(msg) inside the try of procesarPagoCompleto
Throw(s, l, msg) ==
    /\ SetLoc(s, [l EXCEPT !.error = msg])
    /\ Goto(s, "catch")

\* ---------------------------------------------------- session and history
SesionRow(s) ==
    [ estsesion |-> "S", idusu |-> 0, dniusu |-> Dni(s), idtranspas |-> 0,
      montintentado |-> datos[s].montoPlan, run |-> s ]

\* Paso 1: crearSesionPago (ensureInitialized, INSERT PasarelaSesion, SELECT by sessionid)
CrearSesionPago(s) ==
    /\ pc[s] = "p1_crearSesion"
    /\ \/ /\ Falla                                  \* nothing was inserted
          /\ UNCHANGED PasarelaSesion
          /\ Throw(s, FallaDb(s, loc[s]), "Paso 1")
       \/ /\ Falla                                  \* the SELECT of the new id failed
          /\ PasarelaSesion' = Append(PasarelaSesion, SesionRow(s))
          /\ Throw(s, FallaDb(s, loc[s]), "Paso 1")
       \/ /\ SinFalla
          /\ PasarelaSesion' = Append(PasarelaSesion, SesionRow(s))
          /\ SetLoc(s, [loc[s] EXCEPT !.sesionOk = TRUE,
                                      !.idsesionpas = Len(PasarelaSesion) + 1])
          /\ Goto(s, "p2_historialInicio")
    /\ UNCHANGED <<call, tEnt, PasarelaSesionHistorial, tCadena,
                   PasarelaTransaccion, Caja, tVenta, tLog, tGw>>

\* A registrarHistorialSesion that puts the new entry before the older ones.
RegistrarHistorialSesionAlInicio(s, accion, detalle) ==
    \/ /\ SinFalla
       /\ PasarelaSesionHistorial' =
              << [ idsesionpas |-> loc[s].idsesionpas, accion |-> accion,
                   detalle |-> detalle, run |-> s ] >> \o PasarelaSesionHistorial
       /\ UNCHANGED loc
    \/ /\ Falla
       /\ UNCHANGED PasarelaSesionHistorial
       /\ SetLoc(s, FallaDb(s, loc[s]))

\* registrarHistorialSesion: the INSERT, whose failure is swallowed
RegistrarHistorialSesion(s, accion, detalle) ==
    \/ /\ SinFalla
       /\ PasarelaSesionHistorial' = Append(PasarelaSesionHistorial,
              [ idsesionpas |-> loc[s].idsesionpas, accion |-> accion,
                detalle |-> detalle, run |-> s ])
       /\ UNCHANGED loc
    \/ /\ Falla
       /\ UNCHANGED PasarelaSesionHistorial
       /\ SetLoc(s, FallaDb(s, loc[s]))

\* cerrarSesion: the UPDATE of PasarelaSesion, as a new table
CerrarSesionUpdate(id, estado, idtranspas) ==
    [ PasarelaSesion EXCEPT ![id] =
        [ @ EXCEPT !.estsesion = estado,
                   !.idtranspas = IF idtranspas # 0 THEN idtranspas ELSE @ ] ]

\* cerrarSesion: the UPDATE, whose failure is swallowed
CerrarSesion(s, estado, idtranspas) ==
    \/ /\ SinFalla
       /\ PasarelaSesion' = CerrarSesionUpdate(loc[s].idsesionpas, estado, idtranspas)
       /\ UNCHANGED loc
    \/ /\ Falla
       /\ UNCHANGED PasarelaSesion
       /\ SetLoc(s, FallaDb(s, loc[s]))

\* Paso 2: historial INICIO
HistorialInicio(s) ==
    /\ pc[s] = "p2_historialInicio"
    /\ RegistrarHistorialSesion(s, "INICIO", "")
    /\ Goto(s, "p3_buscarUsuario")
    /\ UNCHANGED <<call, tEnt, PasarelaSesion, tCadena, PasarelaTransaccion,
                   Caja, tVenta, tLog, tGw>>

\* ------------------------------------------------- procesarCliente (3-7)
\* Paso 3: buscarUsuarioPorDocumento
BuscarUsuarioPorDocumento(s) ==
    /\ pc[s] = "p3_buscarUsuario"
    /\ LET encontrados == {i \in 1..Len(usuario) : usuario[i].dniusu = Dni(s)} IN
       \/ /\ Falla
          /\ Throw(s, FallaDb(s, loc[s]), "Fase Cliente")
       \/ /\ SinFalla
          /\ encontrados # {}
          /\ \E i \in encontrados :
               SetLoc(s, [loc[s] EXCEPT !.idusu = i])
          /\ Goto(s, "p4_buscarClientePasarela")
       \/ /\ SinFalla
          /\ encontrados = {}
          /\ UNCHANGED loc
          /\ Goto(s, "p5_crearUsuario")
    /\ UNCHANGED <<call, tEnt, tSesion, tCadena, PasarelaTransaccion, Caja,
                   tVenta, tLog, tGw>>

\* Paso 4: buscarClientePasarela (idusu or dniusu, estado='S')
BuscarClientePasarela(s) ==
    /\ pc[s] = "p4_buscarClientePasarela"
    /\ LET activos == {i \in 1..Len(PasarelaCliente) :
                          /\ PasarelaCliente[i].estado = "S"
                          /\ \/ PasarelaCliente[i].idusu = loc[s].idusu
                             \/ PasarelaCliente[i].dniusu = Dni(s)} IN
       \/ /\ Falla
          /\ Throw(s, FallaDb(s, loc[s]), "Fase Cliente")
       \/ /\ SinFalla
          /\ activos # {}
          /\ \E i \in activos :
               IF PasarelaCliente[i].idcliext # 0
               THEN /\ SetLoc(s, [loc[s] EXCEPT !.clienteOk = TRUE, !.idclipas = i,
                                               !.idcliext = PasarelaCliente[i].idcliext])
                    /\ Goto(s, "p7b_sesionIdusu")
               ELSE /\ UNCHANGED loc
                    /\ Goto(s, "p6_crearCliente")
       \/ /\ SinFalla
          /\ activos = {}
          /\ UNCHANGED loc
          /\ Goto(s, "p6_crearCliente")
    /\ UNCHANGED <<call, tEnt, tSesion, tCadena, PasarelaTransaccion, Caja,
                   tVenta, tLog, tGw>>

\* Paso 5: crearUsuario (INSERT ... OUTPUT INSERTED.*, read as result[0]?.[0])
CrearUsuario(s) ==
    /\ pc[s] = "p5_crearUsuario"
    /\ \/ /\ Falla
          /\ UNCHANGED usuario
          /\ Throw(s, FallaDb(s, loc[s]), "Fase Cliente")
       \/ /\ SinFalla
          /\ usuario' = Append(usuario, [dniusu |-> Dni(s), run |-> s])
          /\ IF formaInsert = "filas"
             THEN /\ SetLoc(s, [loc[s] EXCEPT !.idusu = Len(usuario) + 1,
                                             !.usuarioEsNuevo = TRUE])
                  /\ Goto(s, "p6_crearCliente")
             ELSE Throw(s, loc[s], "Fase Cliente")      \* usuarioCreado is null
    /\ UNCHANGED <<call, tEnt, tSesion, PasarelaCliente, PasarelaTarjeta,
                   PasarelaSuscripcion, PasarelaTransaccion, Caja, tVenta, tLog, tGw>>

\* Paso 7: registrarClientePasarela (INSERT, then SELECT TOP 1 by idusu)
RegistrarClientePasarela(s) ==
    /\ pc[s] = "p7_registrarClientePasarela"
    /\ LET fila == [ idusu |-> loc[s].idusu, dniusu |-> Dni(s),
                     idcliext |-> loc[s].idcliext, estado |-> "S", run |-> s ]
           nueva == Append(PasarelaCliente, fila) IN
       \/ /\ Falla
          /\ UNCHANGED PasarelaCliente
          /\ Throw(s, FallaDb(s, loc[s]), "Fase Cliente")
       \/ /\ Falla
          /\ PasarelaCliente' = nueva
          /\ Throw(s, FallaDb(s, loc[s]), "Fase Cliente")
       \/ /\ SinFalla
          /\ PasarelaCliente' = nueva
          /\ SetLoc(s, [loc[s] EXCEPT
                 !.clienteOk = TRUE,
                 !.idclipas = Max({i \in 1..Len(nueva) : nueva[i].idusu = loc[s].idusu})])
          /\ Goto(s, "p7b_sesionIdusu")
    /\ UNCHANGED <<call, tEnt, tSesion, usuario, PasarelaTarjeta,
                   PasarelaSuscripcion, PasarelaTransaccion, Caja, tVenta, tLog, tGw>>

\* UPDATE PasarelaSesion SET idusu (procesarPagoCompleto, after procesarCliente)
ActualizarSesionIdusu(s) ==
    /\ pc[s] = "p7b_sesionIdusu"
    /\ \/ /\ Falla
          /\ UNCHANGED PasarelaSesion
          /\ Throw(s, FallaDb(s, loc[s]), "UPDATE PasarelaSesion")
       \/ /\ SinFalla
          /\ PasarelaSesion' = [PasarelaSesion EXCEPT ![loc[s].idsesionpas].idusu = loc[s].idusu]
          /\ UNCHANGED loc
          /\ Goto(s, "p8_asociarTarjeta")
    /\ UNCHANGED <<call, tEnt, PasarelaSesionHistorial, tCadena,
                   PasarelaTransaccion, Caja, tVenta, tLog, tGw>>

\* --------------------------------------------------- _executeWithLogging
\* The operation begins: _checkRateLimit, ensureInitialized and the validation
\* of its arguments (valido: they pass it) may reject it before any log entry
\* or request exists.
\* The window as the callers of _checkRateLimit see it: when it began, the calls
\* made in it, and whether the last of them passed.
Observa(v, now, pasa) ==
    IF now - v.inicio > RATE_LIMIT_WINDOW_MS
    THEN [inicio |-> now, n |-> 1, pasa |-> pasa]
    ELSE [inicio |-> v.inicio, n |-> v.n + 1, pasa |-> pasa]

\* The result crearCliente and crearSuscripcion register under their key.
Resultado(c) == [respId |-> c.respId, respStatus |-> c.respStatus, idapilog |-> c.idapilog]

IniciarOperacion(s, en, op, key, valido) ==
    /\ pc[s] = en
    /\ call[s].stage = "idle"
    /\ LET rl == CheckRateLimit(reloj, requestCount, rateLimitResetTime)
           c0 == [CallIdle EXCEPT !.stage = "ret", !.op = op, !.key = key, !.inicio = reloj]
           hit == CheckIdempotency(operationCache, key, reloj)
       IN
       /\ requestCount' = rl.requestCount
       /\ rateLimitResetTime' = rl.rateLimitResetTime
       /\ ventana' = Observa(ventana, reloj, rl.pasa)
       /\ IF ~rl.pasa
          THEN /\ SinFalla                               \* throw before anything else
               /\ call' = [call EXCEPT ![s] = [c0 EXCEPT !.entrada = "limite"]]
               /\ UNCHANGED operationCache
          ELSE \/ /\ Falla                             \* ensureInitialized threw
                  /\ call' = [call EXCEPT ![s] = [c0 EXCEPT !.entrada = "rechazo"]]
                  /\ UNCHANGED operationCache
               \/ /\ SinFalla                          \* the validation threw
                  /\ ~valido
                  /\ call' = [call EXCEPT ![s] = [c0 EXCEPT !.entrada = "rechazo"]]
                  /\ UNCHANGED operationCache
               \/ /\ SinFalla
                  /\ valido
                  /\ key # SinClave
                  /\ operationCache' = CacheTrasCheck(operationCache, key, reloj)
                  /\ hit # {}
                  /\ \E e \in hit :                    \* return cachedResult.result
                       call' = [call EXCEPT ![s] =
                          [c0 EXCEPT !.entrada = "cache", !.ok = TRUE,
                                     !.respId = e.result.respId,
                                     !.respStatus = e.result.respStatus,
                                     !.idapilog = e.result.idapilog]]
               \/ /\ SinFalla
                  /\ valido
                  /\ key # SinClave
                  /\ operationCache' = CacheTrasCheck(operationCache, key, reloj)
                  /\ hit = {}
                  /\ call' = [call EXCEPT ![s] =
                         [c0 EXCEPT !.entrada = "gateway", !.stage = "logInicio",
                                    !.attempt = 1]]
               \/ /\ SinFalla
                  /\ valido
                  /\ key = SinClave
                  /\ UNCHANGED operationCache
                  /\ call' = [call EXCEPT ![s] =
                         [c0 EXCEPT !.entrada = "gateway", !.stage = "logInicio",
                                    !.attempt = 1]]
    /\ UNCHANGED <<pc, loc, tReq, reloj, recibido, ensayo, tSesion, tCadena,
                   PasarelaTransaccion, Caja, tVenta, tLog, tGw>>

\* _registrarApiLogInicio: INSERT PasarelaApiLog (esexitoso 'N')
RegistrarApiLogInicio(s) ==
    /\ call[s].stage = "logInicio"
    /\ \/ /\ Falla                                  \* caught: idapilog = null
          /\ UNCHANGED PasarelaApiLog
          /\ call' = [call EXCEPT ![s].stage = "attempt",
                                  ![s].traza = Append(@, <<"logInicio", FALSE>>)]
          /\ SetLoc(s, FallaDb(s, loc[s]))
       \/ /\ SinFalla
          /\ PasarelaApiLog' = Append(PasarelaApiLog,
                 [ operacion |-> call[s].op, esexitoso |-> "N", httpstatuscode |-> 0,
                   actualizado |-> 0, run |-> s ])
          /\ call' = [call EXCEPT ![s].stage = "logSelect",
                                  ![s].propia = Len(PasarelaApiLog) + 1,
                                  ![s].traza = Append(@, <<"logInicio", TRUE>>)]
          /\ UNCHANGED loc
    /\ UNCHANGED <<pc, tEnt, tSesion, tCadena, PasarelaTransaccion, Caja, tVenta,
                   PasarelaAuditoria, tGw>>

\* _registrarApiLogInicio: SELECT TOP 1 idapilog ... ORDER BY idapilog DESC
SeleccionarIdApiLog(s) ==
    /\ call[s].stage = "logSelect"
    /\ \/ /\ Falla
          /\ call' = [call EXCEPT ![s].stage = "attempt"]
          /\ SetLoc(s, FallaDb(s, loc[s]))
       \/ /\ SinFalla
          /\ call' = [call EXCEPT ![s].stage = "attempt", ![s].idapilog = Len(PasarelaApiLog)]
          /\ UNCHANGED loc
    /\ UNCHANGED <<pc, tEnt, tSesion, tCadena, PasarelaTransaccion, Caja, tVenta,
                   tLog, tGw>>

\* An executor that goes from the last attempt straight to the audit.
DespuesDeIntentoSinLog(status, attempt) ==
    IF status = 200 THEN "logResp"
    ELSE IF IsNonRetryable(status) THEN "audit"
    ELSE IF MayRetry(attempt) THEN "backoff"
    ELSE "logResp"

\* What _executeWithRetry does after an attempt that ended with `status`.
DespuesDeIntento(status, attempt) ==
    IF status = 200 THEN "logResp"
    ELSE IF IsNonRetryable(status) THEN "logResp"
    ELSE IF MayRetry(attempt) THEN "backoff"
    ELSE "logResp"

\* _executeWithRetry: one call of operation(), an HTTP request of the axios client
Intento(s) ==
    /\ call[s].stage = "attempt"
    /\ \E status \in HttpStatuses :
         /\ IF status = 200 THEN SinFalla ELSE Falla
         /\ gwReq' = [gwReq EXCEPT ![s][call[s].op] = @ + 1]
         /\ gwSeq' = IF status = 200 THEN gwSeq + 1 ELSE gwSeq
         /\ \E estado \in (IF status = 200 /\ call[s].op = "CREATE_SUBSCRIPTION"
                           THEN EstadosSuscripcion ELSE {""}) :
              call' = [call EXCEPT ![s] =
                 [ @ EXCEPT !.statuses = Append(@, status),
                            !.traza = Append(@, <<"intento", status = 200>>),
                            !.ok = (status = 200),
                            !.respId = IF status = 200 THEN gwSeq + 1 ELSE 0,
                            !.respStatus = estado,
                            !.stage = DespuesDeIntento(status, call[s].attempt) ] ]
    /\ UNCHANGED <<pc, loc, tEnt, tSesion, tCadena, PasarelaTransaccion, Caja,
                   tVenta, tLog>>

\* _executeWithRetry: the setTimeout before the next attempt
Backoff(s) ==
    /\ call[s].stage = "backoff"
    /\ call' = [call EXCEPT ![s] =
           [ @ EXCEPT !.waits = Append(@, RetryDelay(call[s].attempt)),
                      !.attempt = @ + 1,
                      !.stage = "attempt" ] ]
    /\ UNCHANGED <<pc, loc, tEnt, budget, tSesion, tCadena, PasarelaTransaccion,
                   Caja, tVenta, tLog, tGw>>

\* The row _actualizarApiLogRespuesta writes for the outcome of call c.
ApiLogRespuesta(fila, c) ==
    [ fila EXCEPT !.esexitoso = IF c.ok THEN "S" ELSE "N",
                  !.httpstatuscode = IF c.ok THEN 200 ELSE ErrHttpStatusCode(Last(c.statuses)),
                  !.actualizado = @ + 1 ]

\* _actualizarApiLogRespuesta: UPDATE PasarelaApiLog WHERE idapilog = :idapilog
ActualizarApiLogRespuesta(s) ==
    /\ call[s].stage = "logResp"
    /\ \/ /\ call[s].idapilog = 0                    \* if (!idapilog) return
          /\ SinFalla
          /\ call' = [call EXCEPT ![s].stage = "audit",
                                  ![s].traza = Append(@, <<"logRespuesta", FALSE>>)]
          /\ UNCHANGED <<PasarelaApiLog, loc>>
       \/ /\ call[s].idapilog # 0
          /\ Falla
          /\ call' = [call EXCEPT ![s].stage = "audit",
                                  ![s].traza = Append(@, <<"logRespuesta", FALSE>>)]
          /\ UNCHANGED PasarelaApiLog
          /\ SetLoc(s, FallaDb(s, loc[s]))
       \/ /\ call[s].idapilog # 0
          /\ SinFalla
          /\ call' = [call EXCEPT ![s].stage = "audit",
                                  ![s].traza = Append(@, <<"logRespuesta", TRUE>>)]
          /\ PasarelaApiLog' = [PasarelaApiLog EXCEPT
                 ![call[s].idapilog] = ApiLogRespuesta(@, call[s])]
          /\ UNCHANGED loc
    /\ UNCHANGED <<pc, tEnt, tSesion, tCadena, PasarelaTransaccion, Caja, tVenta,
                   PasarelaAuditoria, tGw>>

\* An executor that throws an error of its own in place of the one it caught.
SalidaErrorNuevo(c) ==
    IF c.ok
    THEN [tipo |-> "response", err |-> 0, respId |-> c.respId, idapilog |-> c.idapilog]
    ELSE [tipo |-> "error", err |-> 0, respId |-> 0, idapilog |-> c.idapilog]

\* What _executeWithLogging hands to its caller: the response with _idapilog set,
\* or the error it caught (err: the attempt that threw it) with _idapilog set.
Salida(c) ==
    IF c.ok
    THEN [tipo |-> "response", err |-> 0, respId |-> c.respId, idapilog |-> c.idapilog]
    ELSE [tipo |-> "error", err |-> Len(c.statuses), respId |-> 0, idapilog |-> c.idapilog]

\* An audit whose failed INSERT escapes into the catch of _executeWithLogging.
RegistrarAuditoriaPropaga(s) ==
    /\ call[s].stage = "audit"
    /\ \/ /\ Falla
          /\ call' = [call EXCEPT ![s].stage = "ret", ![s].ok = FALSE,
                                  ![s].salida = [Salida(call[s]) EXCEPT !.tipo = "error"],
                                  ![s].traza = Append(@, <<"auditoria", FALSE>>)]
          /\ UNCHANGED PasarelaAuditoria
          /\ SetLoc(s, FallaDb(s, loc[s]))
       \/ /\ SinFalla
          /\ call' = [call EXCEPT ![s].stage = "ret", ![s].salida = Salida(call[s]),
                                  ![s].traza = Append(@, <<"auditoria", TRUE>>)]
          /\ PasarelaAuditoria' = Append(PasarelaAuditoria,
                 [ idregistro |-> call[s].idapilog,
                   accion |-> IF call[s].ok THEN "API_CALL_SUCCESS" ELSE "API_CALL_ERROR",
                   run |-> s ])
          /\ UNCHANGED loc
    /\ UNCHANGED <<pc, tEnt, tSesion, tCadena, PasarelaTransaccion, Caja, tVenta,
                   PasarelaApiLog, tGw>>

\* _registrarAuditoria: INSERT PasarelaAuditoria, its failure swallowed
RegistrarAuditoria(s) ==
    /\ call[s].stage = "audit"
    /\ \/ /\ Falla
          /\ call' = [call EXCEPT ![s].stage = "ret", ![s].salida = Salida(call[s]),
                                  ![s].traza = Append(@, <<"auditoria", FALSE>>)]
          /\ UNCHANGED PasarelaAuditoria
          /\ SetLoc(s, FallaDb(s, loc[s]))
       \/ /\ SinFalla
          /\ call' = [call EXCEPT ![s].stage = "ret", ![s].salida = Salida(call[s]),
                                  ![s].traza = Append(@, <<"auditoria", TRUE>>)]
          /\ PasarelaAuditoria' = Append(PasarelaAuditoria,
                 [ idregistro |-> call[s].idapilog,
                   accion |-> IF call[s].ok THEN "API_CALL_SUCCESS" ELSE "API_CALL_ERROR",
                   run |-> s ])
          /\ UNCHANGED loc
    /\ UNCHANGED <<pc, tEnt, tSesion, tCadena, PasarelaTransaccion, Caja, tVenta,
                   PasarelaApiLog, tGw>>

\* The operation returns to the saga: its result l on success, the throw on failure.
\* crearCliente, crearSuscripcion: a successful result is registered under its key.
Registra(c) == c.ok /\ c.entrada = "gateway" /\ c.key # SinClave

CacheTras(c) ==
    IF Registra(c) THEN RegisterOperation(operationCache, c.key, Resultado(c), reloj)
    ELSE operationCache

TerminarOperacion(s, en, l, sigue, msg) ==
    /\ pc[s] = en
    /\ call[s].stage = "ret"
    /\ call' = [call EXCEPT ![s] = CallIdle]
    /\ operationCache' = CacheTras(call[s])
    /\ IF call[s].ok
       THEN SetLoc(s, l) /\ Goto(s, sigue)
       ELSE Throw(s, [loc[s] EXCEPT !.errStatus = IF call[s].statuses = <<>> THEN 0
                                                  ELSE Last(call[s].statuses)], msg)
    /\ UNCHANGED <<tReq, reloj, tLimite, recibido, ensayo, budget, tSesion, tCadena,
                   PasarelaTransaccion, Caja, tVenta, tLog, tGw>>

\* crearCliente: the key of the customer of document dni (external_id is the
\* document, the e-mail is the buyer's)
ClaveCliente(dni) ==
    GenerateIdempotencyKey(<< <<"operation", "CREATE_CUSTOMER">>, <<"email", "e-" \o dni>>,
                              <<"external_id", dni>> >>)

\* crearSuscripcion: the key of a subscription of the gateway customer to the plan
ClaveSuscripcion(customerId) ==
    GenerateIdempotencyKey(<< <<"operation", "CREATE_SUBSCRIPTION">>,
                              <<"customerId", ToString(customerId)>>, <<"planId", "P1">> >>)

\* asociarTarjeta: if (!sanitizedCustomerId || !sanitizedTokenId || !sanitizedDeviceSessionId) throw.
\* The customer id is the gateway's (0: none).
TarjetaCompleta(customerId, tokenId, deviceSessionId) ==
    /\ customerId # 0
    /\ SanitizeString(tokenId, 100) # <<>>
    /\ SanitizeString(deviceSessionId, 100) # <<>>

\* crearSuscripcion: if (!sanitizedCustomerId || !sanitizedPlanId) throw
SuscripcionCompleta(customerId, planId) ==
    /\ customerId # 0
    /\ SanitizeString(planId, 100) # <<>>

\* Paso 6: crearClienteEnOpenpay -> openpayService.crearCliente
CrearCliente(s) ==
    \/ IniciarOperacion(s, "p6_crearCliente", "CREATE_CUSTOMER", ClaveCliente(Dni(s)), TRUE)
    \/ TerminarOperacion(s, "p6_crearCliente",
           [loc[s] EXCEPT !.idcliext = call[s].respId],
           "p7_registrarClientePasarela", "Fase Cliente")

\* Paso 8: asociarTarjetaEnOpenpay -> openpayService.asociarTarjeta
AsociarTarjeta(s) ==
    \/ IniciarOperacion(s, "p8_asociarTarjeta", "ASSOCIATE_CARD", SinClave,
                        TarjetaCompleta(loc[s].idcliext, datos[s].tokenTarjeta,
                                        datos[s].deviceSessionId))
    \/ TerminarOperacion(s, "p8_asociarTarjeta",
           [loc[s] EXCEPT !.tarjetaId = call[s].respId, !.tarjetaApilog = call[s].idapilog],
           "p9_guardarTarjeta", "Paso 8")

\* Paso 11: suscribirClienteEnOpenpay -> openpayService.crearSuscripcion
CrearSuscripcion(s) ==
    \/ IniciarOperacion(s, "p11_crearSuscripcion", "CREATE_SUBSCRIPTION",
                        ClaveSuscripcion(loc[s].idcliext),
                        SuscripcionCompleta(loc[s].idcliext, datos[s].planId))
    \/ TerminarOperacion(s, "p11_crearSuscripcion",
           [loc[s] EXCEPT !.suscId = call[s].respId, !.suscStatus = call[s].respStatus,
                          !.suscApilog = call[s].idapilog],
           "p12_guardarSuscripcion", "Paso 11")

\* --------------------------------------------------- card and subscription
\* Paso 9: guardarTarjetaPasarela (INSERT, then SELECT TOP 1 by idclipas)
GuardarTarjetaPasarela(s) ==
    /\ pc[s] = "p9_guardarTarjeta"
    /\ LET fila == [ idclipas |-> loc[s].idclipas, sourceid |-> loc[s].tarjetaId,
                     idapilog |-> loc[s].tarjetaApilog, estado |-> "S", run |-> s ]
           nueva == Append(PasarelaTarjeta, fila) IN
       \/ /\ Falla
          /\ UNCHANGED PasarelaTarjeta
          /\ Throw(s, FallaDb(s, loc[s]), "Paso 9")
       \/ /\ Falla
          /\ PasarelaTarjeta' = nueva
          /\ Throw(s, FallaDb(s, loc[s]), "Paso 9")
       \/ /\ SinFalla
          /\ PasarelaTarjeta' = nueva
          /\ SetLoc(s, [loc[s] EXCEPT !.idtarjpas =
                 Max({i \in 1..Len(nueva) : nueva[i].idclipas = loc[s].idclipas})])
          /\ Goto(s, "p10_historialToken")
    /\ UNCHANGED <<call, tEnt, tSesion, usuario, PasarelaCliente,
                   PasarelaSuscripcion, PasarelaTransaccion, Caja, tVenta, tLog, tGw>>

\* Paso 10: historial TOKEN_CREADO
HistorialToken(s) ==
    /\ pc[s] = "p10_historialToken"
    /\ RegistrarHistorialSesion(s, "TOKEN_CREADO", "")
    /\ Goto(s, "p11_crearSuscripcion")
    /\ UNCHANGED <<call, tEnt, PasarelaSesion, tCadena, PasarelaTransaccion,
                   Caja, tVenta, tLog, tGw>>

\* Paso 12: guardarSuscripcionPasarela (INSERT, then SELECT TOP 1 by idclipas)
GuardarSuscripcionPasarela(s) ==
    /\ pc[s] = "p12_guardarSuscripcion"
    /\ LET fila == [ idclipas |-> loc[s].idclipas, idtarjpas |-> loc[s].idtarjpas,
                     idsuscext |-> loc[s].suscId, idapilog |-> loc[s].suscApilog,
                     estsuscripcion |-> "S", idmem |-> 0, run |-> s ]
           nueva == Append(PasarelaSuscripcion, fila) IN
       \/ /\ Falla
          /\ UNCHANGED PasarelaSuscripcion
          /\ Throw(s, FallaDb(s, loc[s]), "Paso 12")
       \/ /\ Falla
          /\ PasarelaSuscripcion' = nueva
          /\ Throw(s, FallaDb(s, loc[s]), "Paso 12")
       \/ /\ SinFalla
          /\ PasarelaSuscripcion' = nueva
          /\ SetLoc(s, [loc[s] EXCEPT !.idsuscpas =
                 Max({i \in 1..Len(nueva) : nueva[i].idclipas = loc[s].idclipas})])
          /\ Goto(s, "p13_caja")
    /\ UNCHANGED <<call, tEnt, tSesion, usuario, PasarelaCliente, PasarelaTarjeta,
                   PasarelaTransaccion, Caja, tVenta, tLog, tGw>>

\* ------------------------------------------------------ virtual cash register
\* An UPDATE that closes the registers of yesterday only.
CerrarCajasDeAyer ==
    [ i \in 1..Len(Caja) |->
        IF Caja[i].estcaja = "S" /\ Caja[i].fecoperacion = hoy - 1
        THEN [Caja[i] EXCEPT !.estcaja = "C", !.cierre = TRUE]
        ELSE Caja[i] ]

\* UPDATE Caja SET estcaja='C', cierre=GETDATE() WHERE estcaja='S' AND fecoperacion < today
CerrarCajasAnteriores ==
    [ i \in 1..Len(Caja) |->
        IF Caja[i].estcaja = "S" /\ Caja[i].fecoperacion < hoy
        THEN [Caja[i] EXCEPT !.estcaja = "C", !.cierre = TRUE]
        ELSE Caja[i] ]

\* obtenerOCrearCajaVirtual: the outcomes of one call, each the table it leaves,
\* the idcaja its caller reads (0: cajaVirtual is undefined) and whether a
\* query of it failed.
ObtenerOCrearCajaVirtual ==
    LET abiertas == {i \in 1..Len(Caja) : Caja[i].estcaja = "S" /\ Caja[i].fecoperacion = hoy}
        cerradas == CerrarCajasAnteriores
    IN  {[caja |-> Caja, idcaja |-> 0, falla |-> TRUE]}
        \cup
        ( IF abiertas # {}
          THEN {[caja |-> Caja, idcaja |-> i, falla |-> FALSE] : i \in abiertas}
          ELSE { [ caja |-> Append(cerradas, CajaRow(hoy, "S")),
                   idcaja |-> Len(Caja) + 1, falla |-> FALSE ],
                 [ caja |-> cerradas, idcaja |-> 0, falla |-> TRUE ],
                 [ caja |-> Append(cerradas, [CajaRow(hoy, "S") EXCEPT !.dets = <<>>]),
                   idcaja |-> 0, falla |-> TRUE ] } )

\* actualizarCajaVirtual: UPDATE Caja SET montfincaja = ... WHERE idcaja = :idcaja
ActualizarCaja(caja, idcaja, monto) ==
    IF idcaja \in 1..Len(caja) THEN [caja EXCEPT ![idcaja].montfincaja = @ + monto] ELSE caja

\* A detail update whose net leaves the tax out.
ActualizarDetalleSinImpuesto(caja, idcaja, monto, comision, impuesto) ==
    LET neto == monto - comision IN
    IF idcaja \in 1..Len(caja)
    THEN [ caja EXCEPT ![idcaja].dets =
             [ k \in DOMAIN @ |->
                 [ @[k] EXCEPT !.canttransacciones = @ + 1,
                               !.montbruto = @ + monto,
                               !.montcomision = @ + comision,
                               !.montiva = @ + impuesto,
                               !.montneto = @ + neto,
                               !.aplicadas = Append(@, <<monto, comision, impuesto>>) ] ] ]
    ELSE caja

\* A detail update that writes the amounts of the call over the totals.
ActualizarDetalleSobrescribe(caja, idcaja, monto, comision, impuesto) ==
    LET neto == monto - comision - impuesto IN
    IF idcaja \in 1..Len(caja)
    THEN [ caja EXCEPT ![idcaja].dets =
             [ k \in DOMAIN @ |->
                 [ @[k] EXCEPT !.canttransacciones = 1,
                               !.montbruto = monto,
                               !.montcomision = comision,
                               !.montiva = impuesto,
                               !.montneto = neto,
                               !.aplicadas = << <<monto, comision, impuesto>> >> ] ] ]
    ELSE caja

\* actualizarCajaVirtual: UPDATE CajaDetallePasarela SET ... WHERE idcaja = :idcaja
ActualizarDetalle(caja, idcaja, monto, comision, impuesto) ==
    LET neto == monto - comision - impuesto IN
    IF idcaja \in 1..Len(caja)
    THEN [ caja EXCEPT ![idcaja].dets =
             [ k \in DOMAIN @ |->
                 [ @[k] EXCEPT !.canttransacciones = @ + 1,
                               !.montbruto = @ + monto,
                               !.montcomision = @ + comision,
                               !.montiva = @ + impuesto,
                               !.montneto = @ + neto,
                               !.aplicadas = Append(@, <<monto, comision, impuesto>>) ] ] ]
    ELSE caja

\* actualizarCajaVirtual: the two UPDATEs (Caja, then CajaDetallePasarela)
ActualizarCajaVirtual(idcaja, monto, comision, impuesto) ==
    [ completa |-> ActualizarDetalle(ActualizarCaja(Caja, idcaja, monto),
                                     idcaja, monto, comision, impuesto),
      parcial |-> ActualizarCaja(Caja, idcaja, monto) ]

\* ------------------------------------------------ registrarTransaccion (13-14)
\* if (estadoext === 'completed' || estadoext === 'active')
EstadoExitoso(estadoext) == estadoext \in {"completed", "active"}

\* registrarTransaccion: ensureInitialized and obtenerOCrearCajaVirtual
TransaccionCaja(s) ==
    /\ pc[s] = "p13_caja"
    /\ \/ /\ Falla                                  \* ensureInitialized threw
          /\ UNCHANGED Caja
          /\ SetLoc(s, FallaDb(s, loc[s]))
          /\ Goto(s, "p15_historialPago")
       \/ \E r \in ObtenerOCrearCajaVirtual :
            /\ IF r.falla THEN Falla ELSE SinFalla
            /\ Caja' = r.caja
            /\ SetLoc(s, [(IF r.falla THEN FallaDb(s, loc[s]) ELSE loc[s])
                             EXCEPT !.idcajaTx = r.idcaja])
            /\ Goto(s, "p13_insert")
    /\ UNCHANGED <<call, tEnt, tSesion, tCadena, PasarelaTransaccion, tVenta,
                   tLog, tGw>>

TransaccionRow(s) ==
    [ idsesionpas |-> loc[s].idsesionpas, idsuscpas |-> loc[s].idsuscpas,
      idtarjpas |-> loc[s].idtarjpas, idcaja |-> loc[s].idcajaTx,
      idtransext |-> loc[s].suscId, estadoext |-> loc[s].suscStatus,
      montbruto |-> datos[s].montoPlan, montcomisionvar |-> 0, montimpuestocom |-> 0,
      montneto |-> datos[s].montoPlan - 0 - 0,
      idapilog |-> loc[s].suscApilog, idven |-> 0, run |-> s ]

\* registrarTransaccion: the lookups and INSERT PasarelaTransaccion
TransaccionInsert(s) ==
    /\ pc[s] = "p13_insert"
    /\ \/ /\ Falla
          /\ UNCHANGED PasarelaTransaccion
          /\ SetLoc(s, FallaDb(s, loc[s]))
          /\ Goto(s, "p15_historialPago")
       \/ /\ SinFalla
          /\ PasarelaTransaccion' = Append(PasarelaTransaccion, TransaccionRow(s))
          /\ UNCHANGED loc
          /\ Goto(s, "p13_select")
    /\ UNCHANGED <<call, tEnt, tSesion, tCadena, Caja, tVenta, tLog, tGw>>

\* registrarTransaccion: SELECT TOP 1 idtranspas ... ORDER BY idtranspas DESC
TransaccionSelect(s) ==
    /\ pc[s] = "p13_select"
    /\ \/ /\ Falla
          /\ SetLoc(s, FallaDb(s, loc[s]))
          /\ Goto(s, "p15_historialPago")
       \/ /\ SinFalla
          /\ SetLoc(s, [loc[s] EXCEPT !.idtranspas = Len(PasarelaTransaccion)])
          /\ Goto(s, "p13_actualizarCaja")
    /\ UNCHANGED <<call, tEnt, tSesion, tCadena, PasarelaTransaccion, Caja, tVenta,
                   tLog, tGw>>

\* Paso 14: actualizarCajaVirtual when the charge succeeded; return { success: true }
TransaccionActualizarCaja(s) ==
    /\ pc[s] = "p13_actualizarCaja"
    /\ LET r == ActualizarCajaVirtual(loc[s].idcajaTx, datos[s].montoPlan, 0, 0) IN
       \/ /\ EstadoExitoso(loc[s].suscStatus)
          /\ SinFalla
          /\ Caja' = r.completa
          /\ SetLoc(s, [loc[s] EXCEPT !.transOk = TRUE])
       \/ /\ EstadoExitoso(loc[s].suscStatus)
          /\ Falla
          /\ Caja' \in {Caja, r.parcial}
          /\ SetLoc(s, [FallaDb(s, loc[s]) EXCEPT !.transOk = TRUE])
       \/ /\ ~EstadoExitoso(loc[s].suscStatus)
          /\ SinFalla
          /\ UNCHANGED Caja
          /\ SetLoc(s, [loc[s] EXCEPT !.transOk = TRUE])
    /\ Goto(s, "p15_historialPago")
    /\ UNCHANGED <<call, tEnt, tSesion, tCadena, PasarelaTransaccion, tVenta,
                   tLog, tGw>>

\* ------------------------------------------------------- settlement (15-16)
\* The accion of the history entry of Paso 15.
AccionPaso15(s) == "PAGO_EXITOSO"

\* The estado Paso 16 closes the session with.
EstadoPaso16(s) == "C"

\* Paso 15: historial of the payment
HistorialPago(s) ==
    /\ pc[s] = "p15_historialPago"
    /\ RegistrarHistorialSesion(s, AccionPaso15(s), "")
    /\ Goto(s, "p16_cerrarSesion")
    /\ UNCHANGED <<call, tEnt, PasarelaSesion, tCadena, PasarelaTransaccion,
                   Caja, tVenta, tLog, tGw>>

\* Paso 16: cerrarSesion(idsesionpas, 'C', transaccionResult.idtranspas)
CerrarSesionPago(s) ==
    /\ pc[s] = "p16_cerrarSesion"
    /\ CerrarSesion(s, EstadoPaso16(s), loc[s].idtranspas)
    /\ Goto(s, "p17_caja")
    /\ UNCHANGED <<call, tEnt, PasarelaSesionHistorial, tCadena,
                   PasarelaTransaccion, Caja, tVenta, tLog, tGw>>

\* -------------------------------------------------- sale and membership (17-20)
\* Fase 5: obtenerOCrearCajaVirtual for the sale
VentaCaja(s) ==
    /\ pc[s] = "p17_caja"
    /\ \E r \in ObtenerOCrearCajaVirtual :
         /\ IF r.falla THEN Falla ELSE SinFalla
         /\ Caja' = r.caja
         /\ SetLoc(s, [(IF r.falla THEN FallaDb(s, loc[s]) ELSE loc[s])
                          EXCEPT !.idcaja = r.idcaja])
    /\ Goto(s, "p17_venta")
    /\ UNCHANGED <<call, tEnt, tSesion, tCadena, PasarelaTransaccion, tVenta, tLog, tGw>>

\* return { success: true, ... } of procesarPagoCompleto
Retornar(s, l) ==
    /\ SetLoc(s, [l EXCEPT !.result = "ok"])
    /\ Goto(s, "done")

\* A query layer that takes an undefined :idtranspas as NULL.
IdtranspasCualquiera(l) == TRUE

\* crearVentaVirtual: the replacement idtranspas (transaccionResult.idtranspas)
\* is defined, which it is when registrarTransaccion returned its success.
IdtranspasDefinido(l) == l.idtranspas # 0

\* Paso 17: crearVentaVirtual (INSERT Venta OUTPUT INSERTED.idven, read as
\* resultventa[0]?.idven, then INSERT VentaPagos).  An undefined replacement
\* (idtranspas of a failed registrarTransaccion, idven read from a list) makes
\* sequelize.query reject, which the function catches.
CrearVentaVirtual(s) ==
    /\ pc[s] = "p17_venta"
    /\ LET fila == [ idcaja |-> loc[s].idcaja, idtranspas |-> loc[s].idtranspas, run |-> s ] IN
       \/ /\ ~IdtranspasDefinido(loc[s])
          /\ SinFalla
          /\ UNCHANGED Venta
          /\ Retornar(s, loc[s])
       \/ /\ IdtranspasDefinido(loc[s])
          /\ Falla
          /\ Venta' \in {Venta, Append(Venta, fila)}
          /\ Retornar(s, FallaDb(s, loc[s]))
       \/ /\ IdtranspasDefinido(loc[s])
          /\ SinFalla
          /\ Venta' = Append(Venta, fila)
          /\ IF formaInsert = "fila"
             THEN /\ SetLoc(s, [loc[s] EXCEPT !.ventaOk = TRUE, !.idven = Len(Venta) + 1])
                  /\ Goto(s, "p18_ventaDetalle")
             ELSE Retornar(s, loc[s])                   \* idVentaCreada is undefined
    /\ UNCHANGED <<call, tEnt, tSesion, tCadena, PasarelaTransaccion, Caja, VentaDetalle,
                   Membresia, tLog, tGw>>

\* Paso 18: crearVentaDetalle, its result ignored
CrearVentaDetalle(s) ==
    /\ pc[s] = "p18_ventaDetalle"
    /\ \/ /\ Falla
          /\ UNCHANGED VentaDetalle
          /\ SetLoc(s, FallaDb(s, loc[s]))
       \/ /\ SinFalla
          /\ VentaDetalle' = Append(VentaDetalle, [idven |-> loc[s].idven, run |-> s])
          /\ UNCHANGED loc
    /\ Goto(s, "p19_membresia")
    /\ UNCHANGED <<call, tEnt, tSesion, tCadena, PasarelaTransaccion, Caja, Venta,
                   Membresia, tLog, tGw>>

\* The estamem crearMembresia inserts.
EstadoMembresia == "S"

\* Paso 19: crearMembresia (INSERT Membresia, SELECT TOP 1 by idven, UPDATE
\* PasarelaSuscripcion SET idmem)
CrearMembresia(s) ==
    /\ pc[s] = "p19_membresia"
    /\ LET fila == [ estamem |-> EstadoMembresia, idven |-> loc[s].idven,
                     idsuscpas |-> loc[s].idsuscpas, run |-> s ]
           nueva == Append(Membresia, fila)
           idmem == Max({i \in 1..Len(nueva) : nueva[i].idven = loc[s].idven}) IN
       \/ /\ Falla
          /\ Membresia' \in {Membresia, nueva}
          /\ UNCHANGED PasarelaSuscripcion
          /\ SetLoc(s, FallaDb(s, loc[s]))
       \/ /\ SinFalla
          /\ Membresia' = nueva
          /\ PasarelaSuscripcion' =
                 [PasarelaSuscripcion EXCEPT ![loc[s].idsuscpas].idmem = idmem]
          /\ SetLoc(s, [loc[s] EXCEPT !.membOk = TRUE, !.idmem = idmem])
    /\ Goto(s, "p20_transaccionVenta")
    /\ UNCHANGED <<call, tEnt, tSesion, usuario, PasarelaCliente, PasarelaTarjeta,
                   PasarelaTransaccion, Caja, Venta, VentaDetalle, tLog, tGw>>

\* Paso 20: actualizarTransaccionConVenta, then the successful return
ActualizarTransaccionConVenta(s) ==
    /\ pc[s] = "p20_transaccionVenta"
    /\ \/ /\ Falla
          /\ UNCHANGED PasarelaTransaccion
          /\ Retornar(s, FallaDb(s, loc[s]))
       \/ /\ SinFalla
          /\ PasarelaTransaccion' =
                 [PasarelaTransaccion EXCEPT ![loc[s].idtranspas].idven = loc[s].idven]
          /\ Retornar(s, loc[s])
    /\ UNCHANGED <<call, tEnt, tSesion, tCadena, Caja, tVenta, tLog, tGw>>

\* ------------------------------------------------- catch of procesarPagoCompleto
\* if (sesion?.idsesionpas) registrarHistorialSesion(..., 'PAGO_FALLIDO', error.message)
CatchHistorial(s) ==
    /\ pc[s] = "catch"
    /\ IF loc[s].idsesionpas # 0
       THEN /\ RegistrarHistorialSesion(s, "PAGO_FALLIDO", loc[s].error)
            /\ Goto(s, "catch_cerrarSesion")
       ELSE /\ SinFalla
            /\ UNCHANGED PasarelaSesionHistorial
            /\ SetLoc(s, [loc[s] EXCEPT !.result = "fail"])
            /\ Goto(s, "done")
    /\ UNCHANGED <<call, tEnt, PasarelaSesion, tCadena, PasarelaTransaccion, Caja,
                   tVenta, tLog, tGw>>

\* A catch that, besides closing the session, deactivates the cards the run stored.
CatchCerrarSesionCompensa(s) ==
    /\ pc[s] = "catch_cerrarSesion"
    /\ SinFalla
    /\ PasarelaSesion' = CerrarSesionUpdate(loc[s].idsesionpas, "F", 0)
    /\ PasarelaTarjeta' =
           [ i \in 1..Len(PasarelaTarjeta) |->
               IF PasarelaTarjeta[i].run = s
               THEN [PasarelaTarjeta[i] EXCEPT !.estado = "N"]
               ELSE PasarelaTarjeta[i] ]
    /\ SetLoc(s, [loc[s] EXCEPT !.result = "fail"])
    /\ Goto(s, "done")
    /\ UNCHANGED <<call, tEnt, PasarelaSesionHistorial, usuario, PasarelaCliente,
                   PasarelaSuscripcion, PasarelaTransaccion, Caja, tVenta, tLog, tGw>>

\* cerrarSesion(idsesionpas, 'F'), then return { success: false, ... }
CatchCerrarSesion(s) ==
    /\ pc[s] = "catch_cerrarSesion"
    /\ \/ /\ SinFalla
          /\ PasarelaSesion' = CerrarSesionUpdate(loc[s].idsesionpas, "F", 0)
          /\ SetLoc(s, [loc[s] EXCEPT !.result = "fail"])
       \/ /\ Falla
          /\ UNCHANGED PasarelaSesion
          /\ SetLoc(s, [FallaDb(s, loc[s]) EXCEPT !.result = "fail"])
    /\ Goto(s, "done")
    /\ UNCHANGED <<call, tEnt, PasarelaSesionHistorial, tCadena, PasarelaTransaccion,
                   Caja, tVenta, tLog, tGw>>

\* The object procesarPagoCompleto returns, from the locals l it ends with: the
\* success return, or the return of the catch, whose datos.sesion is
\* sesion ? { idsesionpas: sesion.idsesionpas } : null (0: null or undefined).
ResultadoPago(l) ==
    IF l.result = "ok"
    THEN [ success |-> TRUE, mensaje |-> "Pago procesado exitosamente", error |-> "",
           idsesionpas |-> l.idsesionpas ]
    ELSE [ success |-> FALSE, mensaje |-> "Error al procesar el pago", error |-> l.error,
           idsesionpas |-> l.idsesionpas ]

\* ------------------------------------------------------------ specifications
\* One step of procesarPagoCompleto for run s.
Saga(s) ==
    \/ CrearSesionPago(s)
    \/ HistorialInicio(s)
    \/ BuscarUsuarioPorDocumento(s)
    \/ BuscarClientePasarela(s)
    \/ CrearUsuario(s)
    \/ CrearCliente(s)
    \/ RegistrarClientePasarela(s)
    \/ ActualizarSesionIdusu(s)
    \/ AsociarTarjeta(s)
    \/ GuardarTarjetaPasarela(s)
    \/ HistorialToken(s)
    \/ CrearSuscripcion(s)
    \/ GuardarSuscripcionPasarela(s)
    \/ RegistrarApiLogInicio(s)
    \/ SeleccionarIdApiLog(s)
    \/ Intento(s)
    \/ Backoff(s)
    \/ ActualizarApiLogRespuesta(s)
    \/ RegistrarAuditoria(s)
    \/ TransaccionCaja(s)
    \/ TransaccionInsert(s)
    \/ TransaccionSelect(s)
    \/ TransaccionActualizarCaja(s)
    \/ HistorialPago(s)
    \/ CerrarSesionPago(s)
    \/ VentaCaja(s)
    \/ CrearVentaVirtual(s)
    \/ CrearVentaDetalle(s)
    \/ CrearMembresia(s)
    \/ ActualizarTransaccionConVenta(s)
    \/ CatchHistorial(s)
    \/ CatchCerrarSesion(s)

\* One checkout, alone.
Next == \E s \in Solo : Saga(s)

Spec == Init /\ [][Next]_vars

\* ------------------------------------------- callers other than the checkout
EstadosSesion == {"S", "C", "F", "E"}

\* A call from outside the run counts against the budget of environment events.
Externo == budget > 0 /\ budget' = budget - 1

\* openpayService.actualizarSesionPago(idsesionpas, { estsesion }):
\* UPDATE PasarelaSesion SET estsesion = COALESCE(:estsesion, estsesion) WHERE idsesionpas = :id
ActualizarSesionPago(id, estsesion) ==
    /\ id \in 1..Len(PasarelaSesion)
    /\ Externo
    /\ PasarelaSesion' = [PasarelaSesion EXCEPT ![id].estsesion = estsesion]
    /\ UNCHANGED <<pc, loc, call, tEnt, PasarelaSesionHistorial, tCadena,
                   PasarelaTransaccion, Caja, tVenta, tLog, tGw>>

\* cerrarSesion(idsesionpas, estado), the exported function, called by another caller
CerrarSesionExterno(id, estado) ==
    /\ id \in 1..Len(PasarelaSesion)
    /\ Externo
    /\ PasarelaSesion' = CerrarSesionUpdate(id, estado, 0)
    /\ UNCHANGED <<pc, loc, call, tEnt, PasarelaSesionHistorial, tCadena,
                   PasarelaTransaccion, Caja, tVenta, tLog, tGw>>

\* One checkout and the other callers of the two session updates.
NextExt ==
    \/ \E s \in Solo : Saga(s)
    \/ \E id \in 1..Len(PasarelaSesion), e \in EstadosSesion : ActualizarSesionPago(id, e)
    \/ \E id \in 1..Len(PasarelaSesion), e \in EstadosSesion \ {"S"} : CerrarSesionExterno(id, e)

SpecExt == Init /\ [][NextExt]_vars

\* ==================================================================== claims
Terminal == {"C", "F", "E"}
Done(s) == pc[s] = "done"
CatchPcs == {"catch", "catch_cerrarSesion"}
Paso13Pcs == {"p13_caja", "p13_insert", "p13_select", "p13_actualizarCaja"}

\* The rows of a table that run s wrote.
DeRun(tabla, s) == {i \in 1..Len(tabla) : tabla[i].run = s}

\* The history entries of run s with the given accion.
Historial(s, accion) ==
    {i \in DeRun(PasarelaSesionHistorial, s) : PasarelaSesionHistorial[i].accion = accion}

\* The estsesion of the session run s opened.
EstadoSesion(s) == PasarelaSesion[loc[s].idsesionpas].estsesion

\* registrarTransaccion of run s has returned { success: false }.
Paso13Fallido(s) ==
    loc[s].idsuscpas # 0 /\ ~loc[s].transOk /\ pc[s] \notin Paso13Pcs

\* A phase of run s has failed: an exception reached the catch, or the
\* recording of the transaction failed.
FaseFallida(s) == pc[s] \in CatchPcs \/ loc[s].error # "" \/ Paso13Fallido(s)

\* C1: a session whose state is terminal (C, F or E) never changes state again,
\* whoever updates it: the checkout or another caller of actualizarSesionPago
\* or cerrarSesion.
C1_TerminalNeverChanges ==
    [][\A i \in 1..Len(PasarelaSesion) :
          PasarelaSesion[i].estsesion \in Terminal
              => PasarelaSesion'[i].estsesion = PasarelaSesion[i].estsesion]_vars

\* No query of run s failed outside registrarTransaccion.
SoloFallaPaso13(s) == loc[s].fallos \subseteq Paso13Pcs

\* C2: the session of a run (every query outside registrarTransaccion having
\* worked) is Completed only if registrarTransaccion succeeded and the
\* PasarelaTransaccion row of that session is recorded.
C2_CompletedOnlyAfterTransaction ==
    \A s \in Sagas :
        (loc[s].idsesionpas # 0 /\ SoloFallaPaso13(s) /\ EstadoSesion(s) = "C")
            => /\ loc[s].transOk
               /\ \E i \in DeRun(PasarelaTransaccion, s) :
                      PasarelaTransaccion[i].idsesionpas = loc[s].idsesionpas

\* C3: once a phase of a run has failed (a gateway call, or the recording of
\* the transaction), no later step of that run calls the gateway or writes a
\* table, other than the catch's PAGO_FALLIDO entry and its closing of the
\* session as Failed.
C3_FailureAbortsTheRest ==
    [][\A s \in Sagas :
          (FaseFallida(s) /\ SoloFallaPaso13(s) /\ pc'[s] # pc[s])
              => /\ UNCHANGED <<tCadena, PasarelaTransaccion, Caja, tVenta, tLog, tGw>>
                 /\ \/ UNCHANGED PasarelaSesionHistorial
                    \/ /\ Len(PasarelaSesionHistorial') = Len(PasarelaSesionHistorial) + 1
                       /\ Last(PasarelaSesionHistorial').accion = "PAGO_FALLIDO"
                 /\ \/ UNCHANGED PasarelaSesion
                    \/ PasarelaSesion' = CerrarSesionUpdate(loc[s].idsesionpas, "F", 0)]_vars

\* C4: a finished run that opened its session and had a step of phases 2-5 fail
\* (a gateway call, or the recording of the transaction) has a PAGO_FALLIDO
\* entry with the error detail, a Failed session and the result success=false.
C4_FailureIsRecorded ==
    \A s \in Sagas :
        (Done(s) /\ loc[s].idsesionpas # 0 /\ FaseFallida(s) /\ SoloFallaPaso13(s))
            => /\ \E i \in Historial(s, "PAGO_FALLIDO") :
                      /\ PasarelaSesionHistorial[i].idsesionpas = loc[s].idsesionpas
                      /\ PasarelaSesionHistorial[i].detalle = loc[s].error
               /\ loc[s].error # ""
               /\ EstadoSesion(s) = "F"
               /\ loc[s].result = "fail"

\* The card call of run s ended with 422 and no query of the run failed.
Tarjeta422(s) ==
    /\ Done(s)
    /\ loc[s].error = "Paso 8"
    /\ loc[s].errStatus = 422
    /\ loc[s].fallos = {}

\* C5: when the card-association call is answered 422 (and the database
\* works), the session ends Failed, the run has no subscription, transaction,
\* sale or membership row, made no create-subscription call, and exactly one
\* PasarelaApiLog row records the card call: unsuccessful, with status 422.
C5_Card422 ==
    \A s \in Sagas :
        Tarjeta422(s)
            => /\ EstadoSesion(s) = "F"
               /\ loc[s].result = "fail"
               /\ DeRun(PasarelaSuscripcion, s) = {}
               /\ DeRun(PasarelaTransaccion, s) = {}
               /\ DeRun(Venta, s) = {}
               /\ DeRun(Membresia, s) = {}
               /\ gwReq[s]["CREATE_SUBSCRIPTION"] = 0
               /\ LET filas == {i \in DeRun(PasarelaApiLog, s) :
                                   PasarelaApiLog[i].operacion = "ASSOCIATE_CARD"} IN
                  /\ Cardinality(filas) = 1
                  /\ \A i \in filas : /\ PasarelaApiLog[i].esexitoso = "N"
                                      /\ PasarelaApiLog[i].httpstatuscode = 422

\* C5 witness: a run of a buyer whose card call was answered 422 has ended.
C5_Witness ==
    \E s \in Sagas : Tarjeta422(s) /\ gwReq[s]["ASSOCIATE_CARD"] = 1

\* The buyer of the run had no usuario row before the run.
CompradorNuevo == \A i \in 1..Len(usuario) : usuario[i].run # 0

\* C6: the run of a new buyer in which no gateway call and no query failed and
\* the subscription was accepted returns success with customer, card,
\* subscription, transaction, sale and membership ids, its session Completed
\* and its membership Active.
C6_NewBuyerSucceeds ==
    \A s \in Sagas :
        (Done(s) /\ CompradorNuevo /\ budget = MaxFaults
                 /\ (loc[s].suscId = 0 \/ EstadoExitoso(loc[s].suscStatus)))
            => /\ loc[s].result = "ok"
               /\ loc[s].idusu # 0 /\ loc[s].idclipas # 0 /\ loc[s].idtarjpas # 0
               /\ loc[s].idsuscpas # 0 /\ loc[s].idtranspas # 0
               /\ loc[s].ventaOk /\ loc[s].idven # 0
               /\ loc[s].membOk /\ loc[s].idmem # 0
               /\ EstadoSesion(s) = "C"
               /\ \E i \in DeRun(Membresia, s) : Membresia[i].estamem = "S"

\* C7: a run without any fault whose subscription came back in a state that is
\* not a success has no PAGO_EXITOSO entry, no Completed session, no Venta and
\* no Membresia, and ends with a PAGO_FALLIDO entry and a Failed session.
C7_OutcomeFollowsSubscriptionState ==
    \A s \in Sagas :
        (loc[s].suscId # 0 /\ ~EstadoExitoso(loc[s].suscStatus) /\ budget = MaxFaults)
            => /\ Historial(s, "PAGO_EXITOSO") = {}
               /\ EstadoSesion(s) # "C"
               /\ DeRun(Venta, s) = {}
               /\ DeRun(Membresia, s) = {}
               /\ Done(s)
                      => /\ Historial(s, "PAGO_FALLIDO") # {}
                         /\ EstadoSesion(s) = "F"

\* C8: a step of the catch of a failed run changes nothing but the session
\* history (one PAGO_FALLIDO entry) and the session (closed as Failed): no
\* gateway call, and the customer, card and subscription rows stay as they are.
C8_NoCompensation ==
    [][\A s \in Sagas :
          (pc[s] \in CatchPcs /\ pc'[s] # pc[s])
              => /\ UNCHANGED <<tCadena, PasarelaTransaccion, Caja, tVenta, tLog, tGw>>
                 /\ \/ UNCHANGED PasarelaSesionHistorial
                    \/ /\ Len(PasarelaSesionHistorial') = Len(PasarelaSesionHistorial) + 1
                       /\ Last(PasarelaSesionHistorial').accion = "PAGO_FALLIDO"
                 /\ \/ UNCHANGED PasarelaSesion
                    \/ PasarelaSesion' = CerrarSesionUpdate(loc[s].idsesionpas, "F", 0)]_vars

\* C8 witness: a run that had stored its customer and its card ended as failed,
\* the rows still there and active.
C8_Witness ==
    \E s \in Sagas :
        /\ Done(s) /\ loc[s].result = "fail"
        /\ loc[s].idsesionpas # 0 /\ EstadoSesion(s) = "F"
        /\ gwReq[s]["ASSOCIATE_CARD"] > 0
        /\ \E i \in DeRun(PasarelaTarjeta, s) : PasarelaTarjeta[i].estado = "S"
        /\ \E i \in DeRun(PasarelaCliente, s) : PasarelaCliente[i].estado = "S"

\* The gateway call of run s has made its last attempt.
LlamadaTerminada(s) == call[s].stage \in {"logResp", "audit", "ret"}

\* C9: a call whose attempts 1 and 2 failed with a retryable error and whose
\* attempt 3 succeeded returns the result of attempt 3, having waited 1000 ms
\* and then 2000 ms.
C9_RetryThenSuccess ==
    \A s \in Sagas :
        (Len(call[s].statuses) = 3 /\ call[s].statuses[3] = 200)
            => /\ LlamadaTerminada(s)
               /\ call[s].ok
               /\ call[s].respId # 0
               /\ call[s].waits = <<1000, 2000>>

\* C9 witness: a call answered 500, 500 and then 200 has returned.
C9_Witness ==
    \E s \in Sagas : call[s].statuses = <<500, 500, 200>> /\ call[s].stage = "ret"

\* C10: an attempt that ended with 400, 401, 403 or 422 is the last attempt of
\* its call, and no wait follows it.
C10_NonRetryableIsFinal ==
    \A s \in Sagas : \A k \in 1..Len(call[s].statuses) :
        call[s].statuses[k] \in {400, 401, 403, 422}
            => /\ k = Len(call[s].statuses)
               /\ Len(call[s].waits) = k - 1
               /\ LlamadaTerminada(s)
               /\ ~call[s].ok

\* C10 witness: a call whose second attempt was answered 403 has returned.
C10_Witness ==
    \E s \in Sagas : call[s].stage = "ret" /\ call[s].statuses = <<500, 403>>


\* ------------------------------------------------- sale after the transaction
\* The commercial rows (Venta, VentaDetalle, Membresia) run s has inserted.
Comercial(s) == DeRun(Venta, s) \cup DeRun(VentaDetalle, s) \cup DeRun(Membresia, s)

\* The PasarelaTransaccion row of run s that registrarTransaccion handed back.
TransaccionDe(s) ==
    {i \in 1..Len(PasarelaTransaccion) :
        PasarelaTransaccion[i].run = s /\ i = loc[s].idtranspas}

\* C21: a run that has inserted a Venta, a VentaDetalle or a Membresia has its
\* PasarelaTransaccion row in the table and holds its idtranspas, registrarTransaccion
\* having returned success; no such row exists for a run whose transaction INSERT
\* or id SELECT failed; and every Venta carries the idtranspas of its run's row.
C21_SaleOnlyAfterTransaction ==
    \A s \in Sagas :
        /\ Comercial(s) # {} =>
              /\ loc[s].transOk
              /\ TransaccionDe(s) # {}
              /\ loc[s].fallos \cap {"p13_insert", "p13_select"} = {}
        /\ \A v \in DeRun(Venta, s) : Venta[v].idtranspas \in TransaccionDe(s)

\* C21 witness: a checkout whose INSERT INTO PasarelaTransaccion was rejected has
\* gone through phase 5 and returned, and it has no Venta, VentaDetalle or Membresia.
C21_Witness ==
    /\ Done(1)
    /\ loc[1].result = "ok"
    /\ "p13_insert" \in loc[1].fallos
    /\ DeRun(PasarelaTransaccion, 1) = {}
    /\ Comercial(1) = {}


\* ------------------------------------------------- the result of the checkout
\* C23: every result procesarPagoCompleto returns has a message, and every
\* failure result has the id of the payment session.
C23_ResultCarriesMessageAndSession ==
    \A s \in Sagas :
        (Done(s) /\ loc[s].result \in {"ok", "fail"}) =>
            /\ ResultadoPago(loc[s]).mensaje # ""
            /\ ~ResultadoPago(loc[s]).success => ResultadoPago(loc[s]).idsesionpas # 0

\* ------------------------------------------- two checkouts of the same buyer
\* Steps 1 to 7 of procesarPagoCompleto (session, procesarCliente) and its catch.
FaseCliente(s) ==
    \/ CrearSesionPago(s)
    \/ HistorialInicio(s)
    \/ BuscarUsuarioPorDocumento(s)
    \/ BuscarClientePasarela(s)
    \/ CrearUsuario(s)
    \/ CrearCliente(s)
    \/ RegistrarClientePasarela(s)
    \/ ActualizarSesionIdusu(s)
    \/ RegistrarApiLogInicio(s)
    \/ SeleccionarIdApiLog(s)
    \/ Intento(s)
    \/ Backoff(s)
    \/ ActualizarApiLogRespuesta(s)
    \/ RegistrarAuditoria(s)
    \/ CatchHistorial(s)
    \/ CatchCerrarSesion(s)

InitCliente ==
    /\ pc = [s \in Sagas |-> "p1_crearSesion"]
    /\ loc = [s \in Sagas |-> LocInit]
    /\ call = [s \in Sagas |-> CallIdle]
    /\ \E m \in Montos :
         datos = [s \in Sagas |-> Pedido("D1", m, TokenValido, DeviceValido, PlanValido)]
    /\ formaInsert \in FormasInsert
    /\ budget = MaxFallosCliente
    /\ hoy = 2
    /\ InitServicio
    /\ ensayo = EnsayoNulo
    /\ InitTablas
    /\ Caja = <<>>                 \* the register plays no part before step 13

\* Two checkouts of the buyer of document D1, their steps interleaved, up to
\* the end of the customer phase.
NextCliente == \E s \in Sagas : FaseCliente(s)

SpecCliente == InitCliente /\ [][NextCliente]_vars

\* The active mirror rows of user idusu (one gateway: idpasarela is OpenPay's).
Activos(idusu) ==
    {i \in 1..Len(PasarelaCliente) :
        PasarelaCliente[i].estado = "S" /\ PasarelaCliente[i].idusu = idusu}

\* C24: as long as no query and no gateway call has failed, no user has two
\* active PasarelaCliente rows, however the two checkouts interleave.
C24_OneActiveMirrorPerUser ==
    budget = MaxFallosCliente =>
        \A idusu \in 1..Len(usuario) : Cardinality(Activos(idusu)) <= 1

\* C27: with two calls in progress and no failure, the log-entry id a call
\* holds is the id of the entry it inserted, and no entry is updated twice.
C27_LogEntryOwnedByItsCall ==
    budget = MaxFallosCliente =>
        /\ \A s \in Sagas :
              (call[s].entrada = "gateway" /\ call[s].idapilog # 0) =>
                  call[s].idapilog = call[s].propia
        /\ \A i \in 1..Len(PasarelaApiLog) : PasarelaApiLog[i].actualizado <= 1

\* ------------------------------------------------------------ confirmarPedido
\* What a checkout request may carry: an amount within or above the limits of
\* validateAmount, and token, device id and plan id present, blank or made of
\* characters sanitizeString removes.
MontosPedido == {100, 60000}
TokensPedido == {TokenValido, <<>>}
DevicesPedido == {DeviceValido, << " " >>}
PlanesPedido == {PlanValido, << "<", ">" >>}
DocumentosPedido == {"D1", ""}

\* confirmarPedido: the three checks of req.body, then procesarPagoCompleto
ConfirmarPedido(s) ==
    /\ pc[s] = "p0_confirmarPedido"
    /\ SinFalla
    /\ IF Dni(s) = "" \/ datos[s].tokenTarjeta = <<>> \/ datos[s].planId = <<>>
       THEN /\ SetLoc(s, [loc[s] EXCEPT !.result = "rechazado"])
            /\ Goto(s, "done")
       ELSE /\ UNCHANGED loc
            /\ Goto(s, "p1_crearSesion")
    /\ UNCHANGED <<call, tEnt, tSesion, tCadena, PasarelaTransaccion, Caja, tVenta,
                   tLog, tGw>>

InitPedido ==
    /\ pc = [s \in Sagas |-> "p0_confirmarPedido"]
    /\ loc = [s \in Sagas |-> LocInit]
    /\ call = [s \in Sagas |-> CallIdle]
    /\ \E dni \in DocumentosPedido, m \in MontosPedido, tk \in TokensPedido,
          dv \in DevicesPedido, pl \in PlanesPedido :
         datos = [s \in Sagas |-> Pedido(dni, m, tk, dv, pl)]
    /\ formaInsert \in FormasInsert
    /\ budget = MaxFallosPedido
    /\ hoy = 2
    /\ InitServicio
    /\ ensayo = EnsayoNulo
    /\ InitTablas

\* One request to the endpoint.
NextPedido == \E s \in Solo : ConfirmarPedido(s) \/ Saga(s)

SpecPedido == InitPedido /\ [][NextPedido]_vars

\* The HTTP requests run s has sent to the gateway.
PeticionesDe(s) == {op \in Ops : gwReq[s][op] > 0}

\* C22: a checkout whose amount validateAmount rejects (not a number, below 1 or
\* above 50000) sends no request to the gateway.
C22_InvalidAmountNeverReachesGateway ==
    \A s \in Sagas :
        ~ValidateAmount(Numero(datos[s].montoPlan)).ok => PeticionesDe(s) = {}

\* ===================================================== generateIdempotencyKey
\* The function applied on its own to two payloads.
Nombres == {"a", "b", "c"}
Valores == {"x", "y", Indefinido}

Payloads ==
    UNION { {p \in [1..n -> Nombres \X Valores] :
                \A i, j \in 1..n : p[i][1] = p[j][1] => i = j} : n \in 0..MaxProps }

\* Everything but ensayo, at rest.
InitQuieto ==
    /\ pc = [s \in Sagas |-> "p1_crearSesion"]
    /\ loc = [s \in Sagas |-> LocInit]
    /\ call = [s \in Sagas |-> CallIdle]
    /\ datos = [s \in Sagas |-> [dni |-> "D1", montoPlan |-> 100]]
    /\ formaInsert = "filas"
    /\ budget = MaxFaults
    /\ hoy = 2
    /\ InitServicio
    /\ PasarelaSesion = <<>>
    /\ PasarelaSesionHistorial = <<>>
    /\ usuario = <<>>
    /\ PasarelaCliente = <<>>
    /\ PasarelaTarjeta = <<>>
    /\ PasarelaSuscripcion = <<>>
    /\ PasarelaTransaccion = <<>>
    /\ Caja = <<>>
    /\ Venta = <<>>
    /\ VentaDetalle = <<>>
    /\ Membresia = <<>>
    /\ PasarelaApiLog = <<>>
    /\ PasarelaAuditoria = <<>>
    /\ gwSeq = 0
    /\ gwReq = [s \in Sagas |-> [o \in Ops |-> 0]]

tQuieto == <<pc, loc, call, tReq, tServicio, budget, tSesion, tCadena, PasarelaTransaccion,
             Caja, tVenta, tLog, tGw>>

InitClave ==
    /\ InitQuieto
    /\ \E p \in Payloads, q \in Payloads :
         ensayo = [fn |-> "generateIdempotencyKey", p |-> p, q |-> q,
                   kp |-> SinClave, kq |-> SinClave, hecho |-> FALSE]

GenerarClaves ==
    /\ ensayo.fn = "generateIdempotencyKey"
    /\ ~ensayo.hecho
    /\ ensayo' = [ensayo EXCEPT !.kp = GenerateIdempotencyKey(ensayo.p),
                                !.kq = GenerateIdempotencyKey(ensayo.q),
                                !.hecho = TRUE]
    /\ UNCHANGED tQuieto

NextClave == GenerarClaves

SpecClave == InitClave /\ [][NextClave]_vars

\* The key/value set of a payload.
Conjunto(p) == Range(p)

\* C12: two payloads that hold the same key/value set, in whatever insertion
\* order, get the same key from generateIdempotencyKey: the key is a function of
\* that set alone.
C12_KeyIgnoresInsertionOrder ==
    (ensayo.hecho /\ Conjunto(ensayo.p) = Conjunto(ensayo.q)) => ensayo.kp = ensayo.kq

\* C12 witness: two payloads of three properties in different orders, one key.
C12_Witness ==
    /\ ensayo.hecho
    /\ Len(ensayo.p) = 3
    /\ ensayo.p # ensayo.q
    /\ Conjunto(ensayo.p) = Conjunto(ensayo.q)
    /\ ensayo.kp = ensayo.kq
    /\ ensayo.kp # SinClave

\* ================================================== the service, called directly
\* Instants Date.now() is read at: around one and two rate-limit windows and
\* around the life of a cache entry.
Instantes == {0, 1, 60000, 60001, 120001, 120002, 300000, 300001, 300002}

\* Instants around the end of a rate-limit window.
InstantesVentana == {0, 60000, 60001}

\* Time passes, up to one of the instants T.
Avanza(T) ==
    /\ \E t \in T : t > reloj /\ reloj' = t
    /\ UNCHANGED <<pc, loc, call, tReq, tLimite, operationCache, recibido, ensayo, budget,
                   tSesion, tCadena, PasarelaTransaccion, Caja, tVenta, tLog, tGw>>

\* Instants around the life of a cache entry.
InstantesCache == {0, 1, 300000, 300001}

Tick == Avanza(Instantes)
TickCache == Avanza(InstantesCache)
TickVentana == Avanza(InstantesVentana)

\* crearCliente with a name of one character: _checkRateLimit, ensureInitialized,
\* then the validation throws and the catch returns the failure.
LlamadaInvalida ==
    /\ ventana.n < MaxRafaga
    /\ LET rl == CheckRateLimit(reloj, requestCount, rateLimitResetTime) IN
       /\ requestCount' = rl.requestCount
       /\ rateLimitResetTime' = rl.rateLimitResetTime
       /\ ventana' = Observa(ventana, reloj, rl.pasa)
    /\ UNCHANGED <<pc, loc, call, tReq, reloj, operationCache, recibido, ensayo, budget,
                   tSesion, tCadena, PasarelaTransaccion, Caja, tVenta, tLog, tGw>>

\* The operations a direct caller asks for, with their idempotency keys.
Peticiones ==
    { <<"CREATE_CUSTOMER", ClaveCliente("D1")>>,
      <<"ASSOCIATE_CARD", SinClave>>,
      <<"CREATE_SUBSCRIPTION", ClaveSuscripcion(1)>> }

\* A caller that has not yet made max calls invokes one of the operations P.
Llamar(s, P, max) ==
    /\ Len(recibido[s]) < max
    /\ \E p \in P : IniciarOperacion(s, "svc", p[1], p[2], TRUE)

\* A caller invokes crearCliente, asociarTarjeta or crearSuscripcion.
LlamarServicio(s) == Llamar(s, Peticiones, MaxLlamadas)

\* A caller invokes crearCliente or crearSuscripcion.
LlamarConClave(s) ==
    Llamar(s, {p \in Peticiones : p[2] # SinClave}, MaxLlamadas)

\* A caller invokes crearCliente.
LlamarCrearCliente(s) ==
    Llamar(s, {<<"CREATE_CUSTOMER", ClaveCliente("D1")>>}, MaxLlamadasLimite)

\* The operation returns its result object to the caller.
RetornarLlamada(s) ==
    /\ pc[s] = "svc"
    /\ call[s].stage = "ret"
    /\ operationCache' = CacheTras(call[s])
    /\ recibido' = [recibido EXCEPT ![s] = Append(@,
           [ op |-> call[s].op, key |-> call[s].key, entrada |-> call[s].entrada,
             success |-> call[s].ok, resultado |-> Resultado(call[s]),
             inicio |-> call[s].inicio, fin |-> reloj,
             peticiones |-> Len(call[s].statuses) ])]
    /\ call' = [call EXCEPT ![s] = CallIdle]
    /\ UNCHANGED <<pc, loc, tReq, reloj, tLimite, ensayo, budget, tSesion, tCadena,
                   PasarelaTransaccion, Caja, tVenta, tLog, tGw>>

\* The steps of a call in progress of caller s.
EnCurso(s) ==
    \/ RegistrarApiLogInicio(s)
    \/ SeleccionarIdApiLog(s)
    \/ Intento(s)
    \/ Backoff(s)
    \/ ActualizarApiLogRespuesta(s)
    \/ RegistrarAuditoria(s)
    \/ RetornarLlamada(s)

\* The service just constructed, its callers idle, the tables empty, b faults ahead.
InitDirecto(b) ==
    /\ pc = [s \in Sagas |-> "svc"]
    /\ loc = [s \in Sagas |-> LocInit]
    /\ call = [s \in Sagas |-> CallIdle]
    /\ datos = [s \in Sagas |-> [dni |-> "D1", montoPlan |-> 100]]
    /\ formaInsert = "filas"
    /\ budget = b
    /\ hoy = 2
    /\ InitServicio
    /\ ensayo = EnsayoNulo
    /\ PasarelaSesion = <<>>
    /\ PasarelaSesionHistorial = <<>>
    /\ usuario = <<>>
    /\ PasarelaCliente = <<>>
    /\ PasarelaTarjeta = <<>>
    /\ PasarelaSuscripcion = <<>>
    /\ PasarelaTransaccion = <<>>
    /\ Caja = <<>>
    /\ Venta = <<>>
    /\ VentaDetalle = <<>>
    /\ Membresia = <<>>
    /\ PasarelaApiLog = <<>>
    /\ PasarelaAuditoria = <<>>
    /\ gwSeq = 0
    /\ gwReq = [s \in Sagas |-> [o \in Ops |-> 0]]

\* ------------------------------------------------------------ rate limiter
InitLimite == InitDirecto(MaxFallosLimite)

NextLimite ==
    \/ TickVentana
    \/ LlamadaInvalida
    \/ \E s \in Solo : LlamarCrearCliente(s) \/ EnCurso(s)

SpecLimite == InitLimite /\ [][NextLimite]_vars

\* The calls of caller s so far, the one in progress included, that were let
\* in as e ("limite", "rechazo", "cache", "gateway").
Entradas(s, e) ==
    Cardinality({i \in DOMAIN recibido[s] : recibido[s][i].entrada = e})
      + (IF call[s].entrada = e THEN 1 ELSE 0)

\* C11: in a rate-limit window the calls up to the 30th pass _checkRateLimit and
\* the 31st and every later one fail; a call that fails so has sent no gateway
\* request and has no PasarelaApiLog row; the first call after the window has
\* elapsed starts a new count and passes.
C11_RateLimit ==
    /\ ventana.n >= 1 => (ventana.pasa <=> ventana.n <= RATE_LIMIT_MAX_REQUESTS)
    /\ \A s \in Sagas :
         /\ call[s].entrada = "limite" =>
               /\ call[s].stage = "ret" /\ ~call[s].ok
               /\ call[s].statuses = <<>> /\ call[s].traza = <<>>
         /\ \A i \in DOMAIN recibido[s] :
               recibido[s][i].entrada = "limite" =>
                   ~recibido[s][i].success /\ recibido[s][i].peticiones = 0
         /\ Cardinality(DeRun(PasarelaApiLog, s)) <= Entradas(s, "gateway")
         /\ gwReq[s]["CREATE_CUSTOMER"] > 0 => Entradas(s, "gateway") > 0

\* C11 witness: in a window that began after the first one elapsed, thirty calls
\* have passed and the crearCliente that comes 31st is turned away, with no
\* request sent and no log row written.
C11_Witness ==
    /\ ventana.inicio > RATE_LIMIT_WINDOW_MS
    /\ ventana.n = RATE_LIMIT_MAX_REQUESTS + 1
    /\ requestCount = RATE_LIMIT_MAX_REQUESTS + 1
    /\ ~ventana.pasa
    /\ call[1].entrada = "limite"
    /\ call[1].stage = "ret"
    /\ PasarelaApiLog = <<>>
    /\ gwReq[1]["CREATE_CUSTOMER"] = 0

\* -------------------------------------------------------- idempotency cache
InitCache == InitDirecto(MaxFallosCache)

NextCache ==
    \/ TickCache
    \/ \E s \in Solo : LlamarConClave(s) \/ EnCurso(s)

SpecCache == InitCache /\ [][NextCache]_vars

\* Call number j of caller s repeats its call number i: the same idempotency
\* key, the earlier call answered by the gateway with success, the later one
\* issued no more than the life of a cache entry after the earlier one returned,
\* and itself let in as far as the idempotency check.
Repite(s, i, j) ==
    /\ i \in DOMAIN recibido[s] /\ j \in DOMAIN recibido[s] /\ j = i + 1
    /\ recibido[s][i].key = recibido[s][j].key
    /\ recibido[s][i].key # SinClave
    /\ recibido[s][i].success /\ recibido[s][i].entrada = "gateway"
    /\ recibido[s][j].inicio - recibido[s][i].fin <= operationCacheTTL
    /\ recibido[s][j].entrada \in {"cache", "gateway"}

\* C13: the second of two successive crearCliente (or crearSuscripcion) calls with
\* one idempotency key, issued within the 5 minutes after the first succeeded,
\* returns the result of the first and sends no request to the gateway.
C13_IdempotentReplay ==
    \A s \in Sagas : \A i \in DOMAIN recibido[s] :
        Repite(s, i, i + 1) =>
            /\ recibido[s][i + 1].entrada = "cache"
            /\ recibido[s][i + 1].success
            /\ recibido[s][i + 1].resultado = recibido[s][i].resultado
            /\ recibido[s][i + 1].peticiones = 0

\* C13 witness: a subscription created at 0 is asked for again at 300000 ms, the
\* last instant of its cache entry, and the first result comes back.
C13_Witness ==
    /\ Repite(1, 1, 2)
    /\ recibido[1][1].op = "CREATE_SUBSCRIPTION"
    /\ recibido[1][1].fin = 0
    /\ recibido[1][2].inicio = operationCacheTTL
    /\ recibido[1][2].entrada = "cache"
    /\ recibido[1][2].resultado = recibido[1][1].resultado
    /\ recibido[1][1].resultado.respId # 0
    /\ gwReq[1]["CREATE_SUBSCRIPTION"] = recibido[1][1].peticiones

\* ------------------------------------------------------ audited gateway calls
InitServicioDirecto == InitDirecto(MaxFaults)

NextServicio == \E s \in Solo : LlamarServicio(s) \/ EnCurso(s)

SpecServicio == InitServicioDirecto /\ [][NextServicio]_vars

\* The steps call c has taken, by name, and the places of a step in them.
Pasos(c) == [i \in DOMAIN c.traza |-> c.traza[i][1]]
Lugares(c, paso) == {i \in DOMAIN c.traza : c.traza[i][1] = paso}
Hecho(c, paso) == \E i \in DOMAIN c.traza : c.traza[i] = <<paso, TRUE>>

\* The audit rows written for log entry id.
Auditorias(id) == {i \in DOMAIN PasarelaAuditoria : PasarelaAuditoria[i].idregistro = id}

\* Call c went through _executeWithLogging and is about to return.
Auditada(c) == c.stage = "ret" /\ c.entrada = "gateway"

\* C14: in every call through _executeWithLogging, successful or not, the pending
\* log entry is inserted before the first gateway attempt, it is updated after
\* the last attempt, and the audit entry is written after that update and before
\* the outcome goes back to the caller.
C14_LogAttemptUpdateAudit ==
    \A s \in Sagas :
      LET c == call[s] IN
      /\ c.traza # <<>> => c.traza[1][1] = "logInicio"
      /\ Cardinality(Lugares(c, "logInicio")) <= 1
      /\ \A i \in Lugares(c, "logRespuesta") :
            /\ i > 1 /\ c.traza[i - 1][1] = "intento"
            /\ \A j \in Lugares(c, "intento") : j < i
      /\ \A i \in Lugares(c, "auditoria") :
            i > 1 /\ c.traza[i - 1][1] = "logRespuesta" /\ i = Len(c.traza)
      /\ c.stage \in {"attempt", "backoff", "logResp"} /\ Hecho(c, "logInicio") =>
            /\ c.propia \in DOMAIN PasarelaApiLog
            /\ PasarelaApiLog[c.propia].actualizado = 0
            /\ c.idapilog # 0 => Auditorias(c.idapilog) = {}
      /\ c.stage = "audit" /\ c.idapilog # 0 => Auditorias(c.idapilog) = {}
      /\ Auditada(c) =>
            /\ Lugares(c, "intento") # {}
            /\ c.salida # SalidaNula
            /\ Last(c.traza)[1] = "auditoria"
            /\ Hecho(c, "logRespuesta") =>
                  /\ c.idapilog = c.propia
                  /\ PasarelaApiLog[c.propia].actualizado = 1
                  /\ PasarelaApiLog[c.propia].esexitoso = (IF c.ok THEN "S" ELSE "N")
            /\ Hecho(c, "auditoria") /\ c.idapilog # 0 =>
                  Cardinality(Auditorias(c.idapilog)) = 1
      /\ c.stage # "ret" => c.salida = SalidaNula

\* C14 witness: a call refused with 422 at its only attempt returns with its log
\* entry inserted, updated once and audited once.
C14_Witness ==
    /\ Auditada(call[1])
    /\ call[1].statuses = <<422>>
    /\ Pasos(call[1]) = <<"logInicio", "intento", "logRespuesta", "auditoria">>
    /\ \A i \in DOMAIN call[1].traza : i # 2 => call[1].traza[i][2]
    /\ PasarelaApiLog[call[1].propia].actualizado = 1
    /\ Cardinality(Auditorias(call[1].idapilog)) = 1

\* C15: when the gateway call fails, _executeWithLogging throws the very error
\* its last attempt raised, tagged with the id of the log entry, and only after
\* the log update and the audit; a response it returns carries that id too.
C15_RethrowsOriginalError ==
    \A s \in Sagas :
      LET c == call[s] IN
      /\ c.salida # SalidaNula =>
            /\ Len(c.traza) >= 2
            /\ c.traza[Len(c.traza) - 1][1] = "logRespuesta"
            /\ Last(c.traza)[1] = "auditoria"
            /\ c.salida.idapilog = c.idapilog
            /\ c.idapilog # 0 => c.idapilog = c.propia
      /\ Auditada(c) /\ Last(c.statuses) # 200 =>
            /\ c.salida.tipo = "error"
            /\ c.salida.err = Len(c.statuses)
      /\ Auditada(c) /\ Last(c.statuses) = 200 =>
            /\ c.salida.tipo = "response"
            /\ c.salida.respId = c.respId

\* C15 witness: three attempts fail, the error of the third is thrown with the id
\* of the log entry that was updated and audited.
C15_Witness ==
    /\ Auditada(call[1])
    /\ Len(call[1].statuses) = MAX_RETRIES
    /\ call[1].salida = [tipo |-> "error", err |-> MAX_RETRIES, respId |-> 0,
                         idapilog |-> call[1].propia]
    /\ call[1].propia # 0
    /\ Hecho(call[1], "logRespuesta")

\* A step of the log or of the audit of call c failed.
FalloDeRegistro(c) ==
    \E i \in DOMAIN c.traza : c.traza[i][1] # "intento" /\ ~c.traza[i][2]

\* C16: a failed log insert, log update or audit write leaves the outcome of the
\* audited call as it is without the failure: the gateway is still called, and
\* the caller gets the response of the gateway or the error of the last attempt.
C16_LoggingFailureKeepsOutcome ==
    \A s \in Sagas :
      LET c == call[s] IN
      /\ c.stage \in {"logResp", "audit", "ret"} /\ c.entrada = "gateway" =>
            c.statuses # <<>>
      /\ Auditada(c) /\ FalloDeRegistro(c) =>
            /\ c.ok = (Last(c.statuses) = 200)
            /\ c.salida.tipo = (IF Last(c.statuses) = 200 THEN "response" ELSE "error")
            /\ c.salida.respId = c.respId
            /\ c.ok => c.respId # 0
            /\ ~c.ok => c.salida.err = Len(c.statuses)
            /\ \A i \in 1..(Len(c.statuses) - 1) :
                  c.statuses[i] # 200 /\ ~IsNonRetryable(c.statuses[i])

\* C16 witness: the log update and the audit write of a call both fail and it
\* still returns the response of the gateway.
C16_Witness ==
    /\ Auditada(call[1])
    /\ call[1].traza = << <<"logInicio", TRUE>>, <<"intento", TRUE>>,
                          <<"logRespuesta", FALSE>>, <<"auditoria", FALSE>> >>
    /\ call[1].idapilog # 0
    /\ call[1].salida.tipo = "response"
    /\ call[1].salida.respId # 0

\* ============================================ registrarTransaccion, step by step
\* Two callers record one transaction each, through registrarTransaccion of the
\* controller or of the service; every query of obtenerOCrearCajaVirtual and of
\* actualizarCajaVirtual is a step of its own.
Cobros == {<<100, 5, 2>>, <<200, 10, 4>>}
EstadosExt == {"completed", "charged", "active", "failed"}
\* Caller 1 goes through the controller's registrarTransaccion, caller 2 through
\* the service's.
ViaDe(s) == IF s = 1 THEN "controlador" ELSE "servicio"

\* if (data.estadoext === 'completed' || data.estadoext === 'charged')
EstadoExitosoServicio(estadoext) == estadoext \in {"completed", "charged"}

\* A registrarTransaccion that applies every transaction.
AplicaSiempre(d) == TRUE

\* The condition under which the transaction d is applied to the register.
Aplica(d) ==
    IF d.via = "controlador" THEN EstadoExitoso(d.estadoext)
    ELSE EstadoExitosoServicio(d.estadoext)

\* A net amount that leaves the tax out.
MontNetoSinImpuesto(montbruto, montcomisionvar, montimpuestocom) ==
    montbruto - montcomisionvar

\* montneto of the PasarelaTransaccion row
MontNeto(montbruto, montcomisionvar, montimpuestocom) ==
    montbruto - montcomisionvar - montimpuestocom

tResto == <<call, tReq, tServicio, ensayo, tSesion, tCadena, tVenta, tLog, tGw>>

\* The open registers of today.
Abiertas == {i \in 1..Len(Caja) : Caja[i].estcaja = "S" /\ Caja[i].fecoperacion = hoy}

\* A failed query of obtenerOCrearCajaVirtual: { success: false }, idcaja null
CajaFalla(s) ==
    /\ Falla
    /\ SetLoc(s, [loc[s] EXCEPT !.idcajaTx = 0])
    /\ Goto(s, "r_trans")

\* registrarTransaccion: ensureInitialized; obtenerOCrearCajaVirtual: SELECT the
\* open register of today
RegSelectCaja(s) ==
    /\ pc[s] = "r_select"
    /\ \/ /\ Falla                               \* ensureInitialized threw
          /\ UNCHANGED loc
          /\ Goto(s, "r_fin")
       \/ CajaFalla(s)
       \/ /\ SinFalla
          /\ Abiertas # {}
          /\ \E i \in Abiertas : SetLoc(s, [loc[s] EXCEPT !.idcajaTx = i])
          /\ Goto(s, "r_trans")
       \/ /\ SinFalla
          /\ Abiertas = {}
          /\ UNCHANGED loc
          /\ Goto(s, "r_cerrar")
    /\ UNCHANGED <<PasarelaTransaccion, Caja, tResto>>

\* obtenerOCrearCajaVirtual: UPDATE Caja SET estcaja = 'C' of the earlier days
RegCerrarAnteriores(s) ==
    /\ pc[s] = "r_cerrar"
    /\ \/ CajaFalla(s) /\ UNCHANGED Caja
       \/ /\ SinFalla
          /\ Caja' = CerrarCajasAnteriores
          /\ UNCHANGED loc
          /\ Goto(s, "r_insertCaja")
    /\ UNCHANGED <<PasarelaTransaccion, tResto>>

\* obtenerOCrearCajaVirtual: INSERT INTO Caja
RegInsertCaja(s) ==
    /\ pc[s] = "r_insertCaja"
    /\ \/ CajaFalla(s) /\ UNCHANGED Caja
       \/ /\ SinFalla
          /\ Caja' = Append(Caja, [CajaRow(hoy, "S") EXCEPT !.dets = <<>>])
          /\ UNCHANGED loc
          /\ Goto(s, "r_top1")
    /\ UNCHANGED <<PasarelaTransaccion, tResto>>

\* obtenerOCrearCajaVirtual: SELECT TOP 1 idcaja ... ORDER BY idcaja DESC
RegTop1Caja(s) ==
    /\ pc[s] = "r_top1"
    /\ \/ CajaFalla(s)
       \/ /\ SinFalla
          /\ SetLoc(s, [loc[s] EXCEPT !.idcaja = Len(Caja)])
          /\ Goto(s, "r_insertDet")
    /\ UNCHANGED <<PasarelaTransaccion, Caja, tResto>>

\* obtenerOCrearCajaVirtual: INSERT INTO CajaDetallePasarela; return the register
RegInsertDetalle(s) ==
    /\ pc[s] = "r_insertDet"
    /\ \/ CajaFalla(s) /\ UNCHANGED Caja
       \/ /\ SinFalla
          /\ Caja' = [Caja EXCEPT ![loc[s].idcaja].dets = Append(@, DetalleRow)]
          /\ SetLoc(s, [loc[s] EXCEPT !.idcajaTx = loc[s].idcaja])
          /\ Goto(s, "r_trans")
       \/ /\ SinFalla                       \* a key on idcaja rejects a second row
          /\ Caja[loc[s].idcaja].dets # <<>>
          /\ UNCHANGED Caja
          /\ SetLoc(s, [loc[s] EXCEPT !.idcajaTx = 0])
          /\ Goto(s, "r_trans")
    /\ UNCHANGED <<PasarelaTransaccion, tResto>>

\* registrarTransaccion: INSERT INTO PasarelaTransaccion
RegInsertTransaccion(s) ==
    /\ pc[s] = "r_trans"
    /\ \/ /\ Falla
          /\ UNCHANGED PasarelaTransaccion
          /\ Goto(s, "r_fin")
       \/ /\ SinFalla
          /\ PasarelaTransaccion' = Append(PasarelaTransaccion,
                 [ idcaja |-> loc[s].idcajaTx, estadoext |-> datos[s].estadoext,
                   montbruto |-> datos[s].montoPlan,
                   montcomisionvar |-> datos[s].comision,
                   montimpuestocom |-> datos[s].impuesto,
                   montneto |-> MontNeto(datos[s].montoPlan, datos[s].comision,
                                         datos[s].impuesto),
                   run |-> s ])
          /\ Goto(s, "r_transSelect")
    /\ UNCHANGED <<loc, Caja, tResto>>

\* registrarTransaccion: SELECT TOP 1 idtranspas; then the test of estadoext
RegSelectTransaccion(s) ==
    /\ pc[s] = "r_transSelect"
    /\ \/ /\ Falla
          /\ UNCHANGED loc
          /\ Goto(s, "r_fin")
       \/ /\ SinFalla
          /\ SetLoc(s, [loc[s] EXCEPT !.idtranspas = Len(PasarelaTransaccion)])
          /\ Goto(s, IF Aplica(datos[s]) THEN "r_aplicaCaja" ELSE "r_fin")
    /\ UNCHANGED <<PasarelaTransaccion, Caja, tResto>>

\* actualizarCajaVirtual: UPDATE Caja
RegActualizarCaja(s) ==
    /\ pc[s] = "r_aplicaCaja"
    /\ \/ /\ Falla
          /\ UNCHANGED Caja
          /\ Goto(s, "r_fin")
       \/ /\ SinFalla
          /\ Caja' = ActualizarCaja(Caja, loc[s].idcajaTx, datos[s].montoPlan)
          /\ Goto(s, "r_aplicaDetalle")
    /\ UNCHANGED <<loc, PasarelaTransaccion, tResto>>

\* actualizarCajaVirtual: UPDATE CajaDetallePasarela
RegActualizarDetalle(s) ==
    /\ pc[s] = "r_aplicaDetalle"
    /\ \/ /\ Falla
          /\ UNCHANGED Caja
       \/ /\ SinFalla
          /\ Caja' = ActualizarDetalle(Caja, loc[s].idcajaTx, datos[s].montoPlan,
                                       datos[s].comision, datos[s].impuesto)
    /\ Goto(s, "r_fin")
    /\ UNCHANGED <<loc, PasarelaTransaccion, tResto>>

Registrar(s) ==
    \/ RegSelectCaja(s)
    \/ RegCerrarAnteriores(s)
    \/ RegInsertCaja(s)
    \/ RegTop1Caja(s)
    \/ RegInsertDetalle(s)
    \/ RegInsertTransaccion(s)
    \/ RegSelectTransaccion(s)
    \/ RegActualizarCaja(s)
    \/ RegActualizarDetalle(s)

\* registrarTransaccion of the two callers at the place donde, their local
\* variables local, and the registers one of cajas.
InitRegistro(cajas, donde, local) ==
    /\ pc = [s \in Sagas |-> donde]
    /\ loc = [s \in Sagas |-> local]
    /\ call = [s \in Sagas |-> CallIdle]
    /\ \E c \in [Sagas -> Cobros], e \in [Sagas -> EstadosExt] :
         datos = [s \in Sagas |->
                    [dni |-> "D1", montoPlan |-> c[s][1], comision |-> c[s][2],
                     impuesto |-> c[s][3], estadoext |-> e[s], via |-> ViaDe(s)]]
    /\ formaInsert = "filas"
    /\ budget = MaxFallosCaja
    /\ hoy = 2
    /\ InitServicio
    /\ ensayo = EnsayoNulo
    /\ PasarelaSesion = <<>>
    /\ PasarelaSesionHistorial = <<>>
    /\ usuario = <<>>
    /\ PasarelaCliente = <<>>
    /\ PasarelaTarjeta = <<>>
    /\ PasarelaSuscripcion = <<>>
    /\ PasarelaTransaccion = <<>>
    /\ Caja \in cajas
    /\ Venta = <<>>
    /\ VentaDetalle = <<>>
    /\ Membresia = <<>>
    /\ PasarelaApiLog = <<>>
    /\ PasarelaAuditoria = <<>>
    /\ gwSeq = 0
    /\ gwReq = [s \in Sagas |-> [o \in Ops |-> 0]]

InitCajaCon(cajas) == InitRegistro(cajas, "r_select", LocInit)

\* No register, the open register of today (day 2), or one left open yesterday.
InitCaja == InitCajaCon({ <<>>, << CajaRow(2, "S") >>, << CajaRow(1, "S") >> })

NextCaja == \E s \in Sagas : Registrar(s)

SpecCaja == InitCaja /\ [][NextCaja]_vars

\* The sum of the k-th components of the amounts ap.
RECURSIVE Suma(_, _)
Suma(ap, k) == IF ap = <<>> THEN 0 ELSE ap[1][k] + Suma(Tail(ap), k)

\* The CajaDetallePasarela rows, as <<idcaja, k>>.
Detalles == {ik \in (DOMAIN Caja) \X (1..2) : ik[2] \in DOMAIN Caja[ik[1]].dets}
Det(ik) == Caja[ik[1]].dets[ik[2]]

\* C17: (100, 5, 2) and (200, 10, 4) applied to one newly opened register give
\* count 2, gross 300, fee 15, tax 6 and net 279; after any applies the count is
\* their number and each total the sum of their components.
C17_LedgerTotals ==
    \A ik \in Detalles :
      LET d == Det(ik) IN
      /\ d.canttransacciones = Len(d.aplicadas)
      /\ d.montbruto = Suma(d.aplicadas, 1)
      /\ d.montcomision = Suma(d.aplicadas, 2)
      /\ d.montiva = Suma(d.aplicadas, 3)
      /\ d.montneto = Suma(d.aplicadas, 1) - Suma(d.aplicadas, 2) - Suma(d.aplicadas, 3)
      /\ (Len(d.aplicadas) = 2 /\ Range(d.aplicadas) = Cobros) =>
            /\ d.canttransacciones = 2
            /\ d.montbruto = 300
            /\ d.montcomision = 15
            /\ d.montiva = 6
            /\ d.montneto = 279

\* C17 witness: a register opened by one of the two callers has received
\* (100, 5, 2) and then (200, 10, 4) and at the end shows 2, 300, 15, 6, 279.
C17_Witness ==
    /\ \A s \in Sagas : pc[s] = "r_fin"
    /\ Len(Caja) = 1
    /\ Caja[1].fecoperacion = hoy
    /\ Len(Caja[1].dets) = 1
    /\ Caja[1].dets[1].aplicadas = << <<100, 5, 2>>, <<200, 10, 4>> >>
    /\ Caja[1].dets[1].canttransacciones = 2
    /\ Caja[1].dets[1].montbruto = 300
    /\ Caja[1].dets[1].montcomision = 15
    /\ Caja[1].dets[1].montiva = 6
    /\ Caja[1].dets[1].montneto = 279
    /\ Caja[1].montfincaja = 300

\* C18: in every state, whatever the interleaving of the updates, the net total
\* of a register is its gross total less its fee total less its tax total, and
\* the net amount of every recorded transaction is its gross less fee less tax.
C18_NetIsGrossLessFeeLessTax ==
    /\ \A ik \in Detalles :
          Det(ik).montneto = Det(ik).montbruto - Det(ik).montcomision - Det(ik).montiva
    /\ \A i \in DOMAIN PasarelaTransaccion :
          PasarelaTransaccion[i].montneto =
              PasarelaTransaccion[i].montbruto - PasarelaTransaccion[i].montcomisionvar
                - PasarelaTransaccion[i].montimpuestocom

\* C18 witness: caller 1 is between the two updates of actualizarCajaVirtual on
\* the register whose detail already holds the amount of caller 2, and the net
\* totals and the net amounts agree with their components.
C18_Witness ==
    /\ pc[1] = "r_aplicaDetalle"
    /\ pc[2] = "r_fin"
    /\ loc[1].idcajaTx = loc[2].idcajaTx
    /\ loc[1].idcajaTx # 0
    /\ Len(PasarelaTransaccion) = 2
    /\ PasarelaTransaccion[1].montneto = 93
    /\ \E ik \in Detalles :
          /\ ik[1] = loc[1].idcajaTx
          /\ Det(ik).canttransacciones = 1
          /\ Det(ik).montneto = 186
          /\ Caja[ik[1]].montfincaja = 300

\* C19: at any moment, also while calls of obtenerOCrearCajaVirtual of different
\* callers interleave, no two open registers (estcaja 'S') have the same day.
\* (No query fails on the way: budget is untouched.)
C19_OneOpenRegisterPerDay ==
    budget = MaxFallosCaja =>
        \A i, j \in DOMAIN Caja :
            (Caja[i].estcaja = "S" /\ Caja[j].estcaja = "S"
               /\ Caja[i].fecoperacion = Caja[j].fecoperacion) => i = j

\* The external states of a charge that succeeded or was settled.
Liquidado(estadoext) == estadoext \in {"completed", "charged", "active"}

\* The closing amount and the totals of register row c.
TotalesDe(c) ==
    << c.montfincaja,
       [k \in DOMAIN c.dets |->
          << c.dets[k].canttransacciones, c.dets[k].montbruto, c.dets[k].montcomision,
             c.dets[k].montiva, c.dets[k].montneto >>] >>

\* The totals of register i after a step, those of its new detail rows left out.
TotalesTras(i) ==
    << Caja'[i].montfincaja,
       [k \in DOMAIN Caja[i].dets |->
          << Caja'[i].dets[k].canttransacciones, Caja'[i].dets[k].montbruto,
             Caja'[i].dets[k].montcomision, Caja'[i].dets[k].montiva,
             Caja'[i].dets[k].montneto >>] >>

\* C20: recording a transaction whose external state is not a successful or
\* settled one changes no register: the count and the gross, fee, tax and net
\* totals stay as they were at every step of that recording.
C20_OnlySettledTransactionsCount ==
    [][ \A s \in Sagas :
          (pc'[s] # pc[s] /\ ~Liquidado(datos[s].estadoext)) =>
              \A i \in DOMAIN Caja : TotalesTras(i) = TotalesDe(Caja[i]) ]_vars

\* C20 witness: a transaction in state failed has been recorded against the open
\* register of the day, which still shows no transaction and no amount.
C20_Witness ==
    /\ pc[1] = "r_fin"
    /\ pc[2] = "r_select"
    /\ datos[1].estadoext = "failed"
    /\ loc[1].idtranspas # 0
    /\ loc[1].idcajaTx # 0
    /\ PasarelaTransaccion[loc[1].idtranspas].idcaja = loc[1].idcajaTx
    /\ TotalesDe(Caja[loc[1].idcajaTx]) = <<0, << <<0, 0, 0, 0, 0>> >> >>

\* ========================================================= maskSensitiveData
\* The function applied on its own to a payload of one or two properties.
CARD_NUMBER == << "c", "a", "r", "d", "_", "n", "u", "m", "b", "e", "r" >>
Tarjeta16 == << "4", "1", "1", "1", "1", "1", "1", "1", "1", "1", "1", "1", "1", "1", "1", "1" >>

NombresMascara ==
    { CARD_NUMBER, << "P", "a", "s", "s", "w", "o", "r", "d" >>, << "c", "a", "r", "d", "N", "u", "m", "b", "e", "r" >>, << "n", "o", "t", "a" >> }

ValoresMascara ==
    { Texto(Tarjeta16), Texto(<< "4", "1", "1", "1", "-", "1", "1", "1", "1", " ", "1", "1", "1", "1" >>),
      Texto(<< "s", "e", "c", "r", "e", "t", "o", "1", "2" >>), Texto(<< "1", "2", "3", "4", "5", "6", "7", "8" >>), Numero(7) }

PayloadsMascara ==
    UNION { {p \in [1..n -> NombresMascara \X ValoresMascara] :
                \A i, j \in 1..n : p[i][1] = p[j][1] => i = j} : n \in 1..2 }

InitMascara ==
    /\ InitQuieto
    /\ \E p \in PayloadsMascara :
         ensayo = [fn |-> "maskSensitiveData", data |-> p, masked |-> <<>>, hecho |-> FALSE]

Enmascarar ==
    /\ ensayo.fn = "maskSensitiveData"
    /\ ~ensayo.hecho
    /\ ensayo' = [ensayo EXCEPT !.masked = MaskSensitiveData(ensayo.data), !.hecho = TRUE]
    /\ UNCHANGED tQuieto

NextMascara == Enmascarar

SpecMascara == InitMascara /\ [][NextMascara]_vars

\* The text out keeps the first six and the last four characters of the text
\* t and has mask characters between them.
SeisYCuatro(t, out) ==
    /\ Len(out) >= 10
    /\ SubSeq(out, 1, 6) = SubSeq(t, 1, 6)
    /\ SliceFinal(out, 4) = SliceFinal(t, 4)
    /\ \A i \in 7..(Len(out) - 4) : out[i] = "*"

\* C25: maskSensitiveData({card_number: "4111111111111111"}) returns a card_number
\* that keeps the first 6 and the last 4 digits, the others masked.
C25_CardNumberKeepsSixAndFour ==
    (ensayo.hecho /\ ensayo.data = << <<CARD_NUMBER, Texto(Tarjeta16)>> >>) =>
        /\ ensayo.masked[1][2].tipo = "string"
        /\ SeisYCuatro(Tarjeta16, ensayo.masked[1][2].texto)

\* ========================================================== _executeWithRetry
\* Calls of a caller in a behaviour about the retry loop.
MaxLlamadasReintento == 1

\* A caller invokes crearCliente, asociarTarjeta or crearSuscripcion.
LlamarReintento(s) == Llamar(s, Peticiones, MaxLlamadasReintento)

NextReintento == \E s \in Solo : LlamarReintento(s) \/ EnCurso(s)

\* Every attempt ends (the axios client has a timeout) and every wait ends.
SpecServicioJusto ==
    /\ InitServicioDirecto
    /\ [][NextReintento]_vars
    /\ WF_vars(\E s \in Solo : Intento(s) \/ Backoff(s))

Reintentable(status) == status # 200 /\ ~IsNonRetryable(status)
EnReintento(s) == call[s].stage \in {"attempt", "backoff"}

\* At most three attempts and two waits; after three retryable failures the loop
\* is over with no third wait, and what the executor throws is the error of the
\* third attempt.
TresIntentos ==
    \A s \in Sagas :
        /\ Len(call[s].statuses) <= MAX_RETRIES
        /\ Len(call[s].waits) <= MAX_RETRIES - 1
        /\ ( /\ Len(call[s].statuses) = MAX_RETRIES
             /\ \A k \in 1..MAX_RETRIES : Reintentable(call[s].statuses[k]) )
           => /\ ~EnReintento(s)
              /\ ~call[s].ok
              /\ call[s].waits = <<1000, 2000>>
              /\ call[s].stage = "ret" =>
                    call[s].salida.tipo = "error" /\ call[s].salida.err = MAX_RETRIES

\* C26: _executeWithRetry calls the operation at most 3 times; after 3 retryable
\* failures it throws the error of the third attempt without waiting again; and
\* a call that is in the loop always leaves it.
C26_RetryTerminatesAfterThree ==
    /\ []TresIntentos
    /\ \A s \in Solo : EnReintento(s) ~> ~EnReintento(s)

\* C26 witness: a call whose three attempts failed with 500, no response and 500
\* has thrown the error of the third.
C26_Witness ==
    /\ call[1].statuses = <<500, 0, 500>>
    /\ call[1].stage = "ret"
    /\ call[1].salida.tipo = "error"
    /\ call[1].salida.err = 3
    /\ call[1].waits = <<1000, 2000>>

\* ================================================ expiry of the idempotency cache
\* Call number j of caller s comes after the entry of its call number i expired:
\* the same key, the earlier call answered by the gateway with success, the later
\* one issued more than the life of a cache entry after the earlier one returned,
\* and itself let in as far as the idempotency check.
Caducada(s, i, j) ==
    /\ i \in DOMAIN recibido[s] /\ j \in DOMAIN recibido[s] /\ j = i + 1
    /\ recibido[s][i].key = recibido[s][j].key
    /\ recibido[s][i].key # SinClave
    /\ recibido[s][i].success /\ recibido[s][i].entrada = "gateway"
    /\ recibido[s][j].inicio - recibido[s][i].fin > operationCacheTTL
    /\ recibido[s][j].entrada \in {"cache", "gateway"}

\* The call in progress of caller s has run _checkIdempotency.
Chequeada(s) ==
    call[s].stage # "idle" /\ call[s].key # SinClave /\ call[s].entrada \in {"cache", "gateway"}

\* C29: a call that comes more than 5 minutes after the entry of its key was
\* registered goes to the gateway again; the check leaves no entry older than
\* 5 minutes in the cache and answers only from an entry that is not older; and
\* every entry of the cache is the result of a call the gateway answered with
\* success, stamped with the time of its return.
C29_ExpiredEntryNeverReturned ==
    /\ \A s \in Sagas : \A i \in DOMAIN recibido[s] :
          Caducada(s, i, i + 1) =>
              /\ recibido[s][i + 1].entrada = "gateway"
              /\ recibido[s][i + 1].peticiones > 0
    /\ \A s \in Sagas :
          Chequeada(s) =>
              /\ \A e \in operationCache : call[s].inicio - e.timestamp <= operationCacheTTL
              /\ call[s].entrada = "cache" =>
                    \E e \in operationCache :
                        /\ e.key = call[s].key
                        /\ e.result = Resultado(call[s])
                        /\ call[s].inicio - e.timestamp <= operationCacheTTL
    /\ \A e \in operationCache :
          \E s \in Sagas : \E i \in DOMAIN recibido[s] :
              /\ recibido[s][i].success /\ recibido[s][i].entrada = "gateway"
              /\ recibido[s][i].key = e.key
              /\ recibido[s][i].resultado = e.result
              /\ recibido[s][i].fin = e.timestamp

\* C29 witness: a customer created at 0 is asked for again at 300001 ms; the
\* second call is answered by the gateway with a new customer, and the cache
\* holds the new result alone.
C29_Witness ==
    /\ Caducada(1, 1, 2)
    /\ recibido[1][1].op = "CREATE_CUSTOMER"
    /\ recibido[1][1].fin = 0
    /\ recibido[1][2].inicio = operationCacheTTL + 1
    /\ recibido[1][2].entrada = "gateway"
    /\ recibido[1][2].success
    /\ recibido[1][2].resultado.respId # recibido[1][1].resultado.respId
    /\ \A e \in operationCache : e.result = recibido[1][2].resultado

\* =================================================== obtenerOCrearCajaVirtual
\* A register closed on its day.
CajaCerrada(dia) == [CajaRow(dia, "C") EXCEPT !.cierre = TRUE]

\* One registrar, on a day (2) that may end while it works; besides the
\* registers of InitCaja, two left open on earlier days, and the open register
\* of today after a closed and an open one.
InitCajaSolo ==
    InitCajaCon({ <<>>, << CajaRow(2, "S") >>, << CajaRow(1, "S") >>,
                  << CajaRow(0, "S"), CajaRow(1, "S") >>,
                  << CajaCerrada(0), CajaRow(1, "S"), CajaRow(2, "S") >> })

\* Midnight: CAST(GETDATE() AS DATE), evaluated by each query, moves on.
CambioDeDia ==
    /\ hoy < MaxDia
    /\ hoy' = hoy + 1
    /\ UNCHANGED <<pc, loc, call, datos, formaInsert, tServicio, ensayo, budget, tSesion,
                   tCadena, PasarelaTransaccion, Caja, tVenta, tLog, tGw>>

NextCajaSolo ==
    \/ CambioDeDia
    \/ \E s \in Solo : Registrar(s)

SpecCajaSolo == InitCajaSolo /\ [][NextCajaSolo]_vars

\* The register has no transaction and no amount, in the columns that the two
\* INSERT statements name.
EnCero(c) ==
    /\ c.montfincaja = 0
    /\ Len(c.dets) = 1
    /\ c.dets[1].canttransacciones = 0
    /\ c.dets[1].montbruto = 0
    /\ c.dets[1].montneto = 0
    /\ c.dets[1].aplicadas = <<>>

\* C30: in every step of obtenerOCrearCajaVirtual: the INSERT of the new register
\* finds every register of an earlier day closed, with its closing time set, and
\* adds one open register of today; the register handed back as new has no
\* transaction and zero totals; and when the SELECT finds an open register of
\* today the call hands back one of those and leaves the table as it was.
C30_GetOrCreateRegister ==
    [][ \A s \in Solo :
          /\ (pc[s] = "r_insertCaja" /\ pc'[s] = "r_top1") =>
                /\ \A i \in 1..Len(Caja) :
                      Caja[i].fecoperacion < hoy => Caja[i].estcaja = "C" /\ Caja[i].cierre
                /\ Len(Caja') = Len(Caja) + 1
                /\ SubSeq(Caja', 1, Len(Caja)) = Caja
                /\ Last(Caja').estcaja = "S"
                /\ Last(Caja').fecoperacion = hoy
                /\ Last(Caja').montfincaja = 0
          /\ (pc[s] = "r_insertDet" /\ pc'[s] = "r_trans" /\ loc'[s].idcajaTx # 0) =>
                /\ loc'[s].idcajaTx = Len(Caja)
                /\ EnCero(Caja'[loc'[s].idcajaTx])
          /\ (pc[s] = "r_select" /\ pc'[s] = "r_trans" /\ loc'[s].idcajaTx # 0) =>
                /\ loc'[s].idcajaTx \in Abiertas
                /\ Caja' = Caja
          /\ (pc[s] = "r_select" /\ pc'[s] = "r_cerrar") => Abiertas = {} ]_vars

\* C30 witness: the call found no open register of today, closed the two left
\* open on days 0 and 1, inserted the register of day 2 and handed it back.
C30_Witness ==
    /\ Len(Caja) = 3
    /\ Caja[1] = CajaCerrada(0)
    /\ Caja[2] = CajaCerrada(1)
    /\ Caja[3].estcaja = "S" /\ Caja[3].fecoperacion = 2 /\ EnCero(Caja[3])
    /\ pc[1] = "r_trans"
    /\ loc[1].idcajaTx = 3

\* ======================================= two concurrent calls of one key
\* The calls of key k that are past _checkIdempotency, on their way to the
\* gateway or back, and have not returned to register.
EnVuelo(k) ==
    {s \in Sagas : call[s].entrada = "gateway" /\ call[s].key = k /\ call[s].stage # "idle"}

\* Calls of a caller, and faults, in a behaviour of two callers of the service.
MaxLlamadasCarrera == 1
MaxFallosCarrera == 1

\* A caller invokes crearCliente for the buyer of document D1.
LlamarCarrera(s) ==
    Llamar(s, {<<"CREATE_CUSTOMER", ClaveCliente("D1")>>}, MaxLlamadasCarrera)

InitCarrera == InitDirecto(MaxFallosCarrera)

\* Two callers of the service, the steps of their calls interleaved.
NextCarrera == \E s \in Sagas : LlamarCarrera(s) \/ EnCurso(s)

SpecCarrera == InitCarrera /\ [][NextCarrera]_vars

\* C28: the check and the register are two steps with the gateway call between
\* them: an entry enters the cache only in the step in which a successful call
\* of its key returns, never in the step that checks, so that a second call of
\* the key that checks in between finds nothing.
C28_CheckThenRegisterNotAtomic ==
    [][ \A e \in operationCache' \ operationCache :
          \E s \in Sagas :
              /\ call[s].stage = "ret"
              /\ call'[s].stage = "idle"
              /\ Registra(call[s])
              /\ e.key = call[s].key
              /\ e.result = Resultado(call[s]) ]_vars

\* C28 witness: two crearCliente calls of one key have both passed the check and
\* both have had their request answered by the gateway, and the cache holds no
\* entry of the key.
C28_Witness ==
    /\ EnVuelo(ClaveCliente("D1")) = Sagas
    /\ \A s \in Sagas : call[s].statuses = <<200>>
    /\ call[1].respId # call[2].respId
    /\ \A e \in operationCache : e.key # ClaveCliente("D1")

\* ====================================== concurrent actualizarCajaVirtual calls
\* Both callers of registrarTransaccion have obtained register 1, the open
\* register of the day, and go on to record and apply their transactions.
InitAplicar ==
    InitRegistro({ << CajaRow(2, "S") >> }, "r_trans", [LocInit EXCEPT !.idcajaTx = 1])

NextAplicar ==
    \E s \in Sagas :
        \/ RegInsertTransaccion(s)
        \/ RegSelectTransaccion(s)
        \/ RegActualizarCaja(s)
        \/ RegActualizarDetalle(s)

SpecAplicar == InitAplicar /\ [][NextAplicar]_vars

\* The callers whose UPDATE Caja, and whose UPDATE CajaDetallePasarela, is done
\* (no query has failed).
ConCaja == {s \in Sagas : Aplica(datos[s]) /\ pc[s] \in {"r_aplicaDetalle", "r_fin"}
                             /\ loc[s].idtranspas # 0}
ConDetalle == {s \in Sagas : Aplica(datos[s]) /\ pc[s] = "r_fin" /\ loc[s].idtranspas # 0}

\* The sum of campo over the requests of the callers in A.
RECURSIVE SumaDe(_, _)
SumaDe(A, campo) ==
    IF A = {} THEN 0
    ELSE LET s == CHOOSE x \in A : TRUE IN datos[s][campo] + SumaDe(A \ {s}, campo)

\* C31: with no failed query, in every interleaving of the UPDATEs of the two
\* callers, register 1 shows as many transactions as detail updates are done and
\* the sums of their amounts, fees, taxes and nets, and its closing amount is the
\* sum of the amounts of the register updates done.
C31_NoLostUpdate ==
    budget = MaxFallosCaja =>
        /\ Caja[1].montfincaja = SumaDe(ConCaja, "montoPlan")
        /\ Len(Caja[1].dets) = 1
        /\ Caja[1].dets[1].canttransacciones = Cardinality(ConDetalle)
        /\ Caja[1].dets[1].montbruto = SumaDe(ConDetalle, "montoPlan")
        /\ Caja[1].dets[1].montcomision = SumaDe(ConDetalle, "comision")
        /\ Caja[1].dets[1].montiva = SumaDe(ConDetalle, "impuesto")
        /\ Caja[1].dets[1].montneto =
              SumaDe(ConDetalle, "montoPlan") - SumaDe(ConDetalle, "comision")
                - SumaDe(ConDetalle, "impuesto")

\* C31 witness: the two callers applied 100 and 200 with their UPDATEs
\* interleaved (caller 2 did both of its own between the two of caller 1), and
\* the register shows 2 transactions and 300, 15, 6, 279.
C31_Witness ==
    /\ budget = MaxFallosCaja
    /\ ConDetalle = Sagas
    /\ datos[1].montoPlan = 100 /\ datos[2].montoPlan = 200
    /\ Caja[1].dets[1].aplicadas = << <<200, 10, 4>>, <<100, 5, 2>> >>
    /\ PasarelaTransaccion[1].run = 1
    /\ Caja[1].montfincaja = 300
    /\ Caja[1].dets[1].canttransacciones = 2
    /\ Caja[1].dets[1].montbruto = 300
    /\ Caja[1].dets[1].montneto = 279

\* ================================================ ensureInitialized, initialize
\* SECURITY_CONFIG.CONFIG_TTL_MS
CONFIG_TTL_MS == 3600000

\* Changes of the PasarelaPago record and failed queries of initialize in a
\* behaviour about the initialization.
MaxFallosIniciar == 1

\* Date.now() at the start, and instants around the end of the life of a
\* configuration loaded then.
InstantesIniciar == {1, 3600001, 3600002}

\* The PasarelaPago record of code OPP: complete and active, missing, inactive
\* (estado # 'S'), or without merchantid or privatekey.
Registros == {"completa", "ausente", "inactiva", "incompleta"}

\* SELECT TOP 1 ... FROM PasarelaPago WHERE codpasarela = 'OPP' AND estado = 'S',
\* and the two tests of initialize: the configuration it keeps, or "" when it throws.
ConfigDe(registro) == IF registro = "completa" THEN "cfg" ELSE ""

\* The service as its constructor leaves it: config, axiosInstance, _lastInitTime
\* and _initPromise null.  intentos, espera and registro are not fields of the
\* service: the initialize() calls made so far, the promise each caller awaits
\* (0: ensureInitialized returned true), the PasarelaPago record, and the
\* changes of the record and failures of its query still to come.
ServicioNuevo(registro) ==
    [ fn |-> "ensureInitialized", config |-> "", axiosInstance |-> FALSE,
      lastInitTime |-> 0, initPromise |-> 0, intentos |-> <<>>,
      espera |-> [s \in Sagas |-> 0], registro |-> registro,
      fallos |-> MaxFallosIniciar ]

\* The service after an initialize() that succeeded at instant t.
ServicioIniciado(registro, t) ==
    [ ServicioNuevo(registro) EXCEPT !.config = "cfg", !.axiosInstance = TRUE,
                                     !.lastInitTime = t,
                                     !.intentos = << [estado |-> "ok", finalizado |-> TRUE] >> ]

\* if (this.config && this.axiosInstance) and !configExpired
Vigente(e, now) ==
    /\ e.config # ""
    /\ e.axiosInstance
    /\ ~(e.lastInitTime # 0 /\ now - e.lastInitTime > CONFIG_TTL_MS)

\* An ensureInitialized that never finds a promise to share.
HayPromesaNunca(e) == FALSE

\* if (this._initPromise)
HayPromesa(e) == e.initPromise # 0

\* ensureInitialized, up to the promise it returns
EnsureInitialized(e, s, now) ==
    IF Vigente(e, now) THEN [e EXCEPT !.espera[s] = 0]
    ELSE IF HayPromesa(e) THEN [e EXCEPT !.espera[s] = e.initPromise]
    ELSE [e EXCEPT !.intentos = Append(@, [estado |-> "vuelo", finalizado |-> FALSE]),
                   !.initPromise = Len(e.intentos) + 1,
                   !.espera[s] = Len(e.intentos) + 1]

\* An initialize that keeps what the service had when it throws.
InitializeConserva(e, i, cfg, now) ==
    IF cfg # ""
    THEN [e EXCEPT !.config = cfg, !.axiosInstance = TRUE, !.lastInitTime = now,
                   !.intentos[i].estado = "ok"]
    ELSE [e EXCEPT !.intentos[i].estado = "error"]

\* initialize, from the answer of its query: cfg is the record read, "" when
\* the query failed or the record is missing, inactive or incomplete.
Initialize(e, i, cfg, now) ==
    IF cfg # ""
    THEN [e EXCEPT !.config = cfg, !.axiosInstance = TRUE, !.lastInitTime = now,
                   !.intentos[i].estado = "ok"]
    ELSE [e EXCEPT !.config = "", !.axiosInstance = FALSE, !.lastInitTime = 0,
                   !.intentos[i].estado = "error"]

tIniciar == <<loc, tReq, tSesion, tCadena, PasarelaTransaccion, Caja, tVenta, tLog, tGw>>

\* crearCliente: _checkRateLimit and the call of ensureInitialized.  Each caller
\* makes one call.
EntrarOperacion(s) ==
    /\ pc[s] = "svc"
    /\ call[s].stage = "idle"
    /\ recibido[s] = <<>>
    /\ LET rl == CheckRateLimit(reloj, requestCount, rateLimitResetTime)
           c0 == [CallIdle EXCEPT !.stage = "ret", !.op = "CREATE_CUSTOMER",
                                  !.key = ClaveCliente("D1"), !.inicio = reloj]
       IN
       /\ requestCount' = rl.requestCount
       /\ rateLimitResetTime' = rl.rateLimitResetTime
       /\ ventana' = Observa(ventana, reloj, rl.pasa)
       /\ IF ~rl.pasa
          THEN /\ call' = [call EXCEPT ![s] = [c0 EXCEPT !.entrada = "limite"]]
               /\ UNCHANGED ensayo
          ELSE /\ call' = [call EXCEPT ![s] = [c0 EXCEPT !.stage = "init"]]
               /\ ensayo' = EnsureInitialized(ensayo, s, reloj)
    /\ UNCHANGED <<pc, reloj, operationCache, recibido, budget, tIniciar>>

\* initialize: the query is answered (or fails), the service is set or cleared
InitializeTermina ==
    /\ \E i \in DOMAIN ensayo.intentos :
         /\ ensayo.intentos[i].estado = "vuelo"
         /\ \/ ensayo' = Initialize(ensayo, i, ConfigDe(ensayo.registro), reloj)
            \/ /\ ensayo.fallos > 0                     \* the query failed
               /\ ensayo' = [Initialize(ensayo, i, "", reloj) EXCEPT !.fallos = @ - 1]
    /\ UNCHANGED <<pc, call, tServicio, budget, tIniciar>>

\* .finally(() => { this._initPromise = null; })
Finally ==
    /\ \E i \in DOMAIN ensayo.intentos :
         /\ ensayo.intentos[i].estado # "vuelo"
         /\ ~ensayo.intentos[i].finalizado
         /\ ensayo' = [ensayo EXCEPT !.initPromise = 0, !.intentos[i].finalizado = TRUE]
    /\ UNCHANGED <<pc, call, tServicio, budget, tIniciar>>

\* The promise caller s awaits is settled, and with what.
Asentada(e, s) == IF e.espera[s] = 0 THEN TRUE ELSE e.intentos[e.espera[s]].finalizado
Cumplida(e, s) == IF e.espera[s] = 0 THEN TRUE ELSE e.intentos[e.espera[s]].estado = "ok"

\* crearCliente after await this.ensureInitialized(): the catch when it threw;
\* else the validation (the data are valid), _checkIdempotency, and the cached
\* result or the entry into _executeWithLogging
SeguirOperacion(s) ==
    /\ pc[s] = "svc"
    /\ call[s].stage = "init"
    /\ Asentada(ensayo, s)
    /\ LET key == call[s].key
           hit == CheckIdempotency(operationCache, key, reloj)
       IN
       IF ~Cumplida(ensayo, s)
       THEN /\ call' = [call EXCEPT ![s].stage = "ret", ![s].entrada = "rechazo"]
            /\ UNCHANGED operationCache
       ELSE /\ operationCache' = CacheTrasCheck(operationCache, key, reloj)
            /\ IF hit # {}
               THEN \E e \in hit :
                      call' = [call EXCEPT ![s].stage = "ret", ![s].entrada = "cache",
                                           ![s].ok = TRUE,
                                           ![s].respId = e.result.respId,
                                           ![s].respStatus = e.result.respStatus,
                                           ![s].idapilog = e.result.idapilog]
               ELSE call' = [call EXCEPT ![s].stage = "logInicio",
                                         ![s].entrada = "gateway", ![s].attempt = 1]
    /\ UNCHANGED <<pc, reloj, tLimite, recibido, ensayo, budget, tIniciar>>

\* The PasarelaPago record is changed by its administrator.
CambiarRegistro ==
    /\ ensayo.fallos > 0
    /\ \E r \in Registros \ {ensayo.registro} :
         ensayo' = [ensayo EXCEPT !.registro = r, !.fallos = @ - 1]
    /\ UNCHANGED <<pc, call, tServicio, budget, tIniciar>>

TickIniciar == Avanza(InstantesIniciar)

\* The service just constructed, or initialized at instant 1, and its callers
\* idle; the gateway and the queries of the log do not fail.
InitIniciar ==
    /\ pc = [s \in Sagas |-> "svc"]
    /\ loc = [s \in Sagas |-> LocInit]
    /\ call = [s \in Sagas |-> CallIdle]
    /\ datos = [s \in Sagas |-> [dni |-> "D1", montoPlan |-> 100]]
    /\ formaInsert = "filas"
    /\ budget = 0
    /\ hoy = 2
    /\ reloj = 1
    /\ requestCount = 0
    /\ rateLimitResetTime = 0
    /\ operationCache = {}
    /\ ventana = VentanaInit
    /\ recibido = [s \in Sagas |-> <<>>]
    /\ \/ \E r \in Registros : ensayo = ServicioNuevo(r)
       \/ ensayo = ServicioIniciado("completa", 1)
    /\ PasarelaSesion = <<>>
    /\ PasarelaSesionHistorial = <<>>
    /\ usuario = <<>>
    /\ PasarelaCliente = <<>>
    /\ PasarelaTarjeta = <<>>
    /\ PasarelaSuscripcion = <<>>
    /\ PasarelaTransaccion = <<>>
    /\ Caja = <<>>
    /\ Venta = <<>>
    /\ VentaDetalle = <<>>
    /\ Membresia = <<>>
    /\ PasarelaApiLog = <<>>
    /\ PasarelaAuditoria = <<>>
    /\ gwSeq = 0
    /\ gwReq = [s \in Sagas |-> [o \in Ops |-> 0]]

\* The steps of a call in progress of caller s whose request the gateway answers.
EnCursoSinReintento(s) ==
    \/ RegistrarApiLogInicio(s)
    \/ SeleccionarIdApiLog(s)
    \/ Intento(s)
    \/ ActualizarApiLogRespuesta(s)
    \/ RegistrarAuditoria(s)
    \/ RetornarLlamada(s)

NextIniciar ==
    \/ TickIniciar
    \/ CambiarRegistro
    \/ InitializeTermina
    \/ Finally
    \/ \E s \in Sagas : EntrarOperacion(s) \/ SeguirOperacion(s) \/ EnCursoSinReintento(s)

SpecIniciar == InitIniciar /\ [][NextIniciar]_vars

\* The initialize() calls whose query is not answered yet, and those whose
\* promise is not settled yet.
EnVueloIniciar == {i \in DOMAIN ensayo.intentos : ensayo.intentos[i].estado = "vuelo"}
Pendientes == {i \in DOMAIN ensayo.intentos : ~ensayo.intentos[i].finalizado}

\* The callers that are waiting for a promise of ensureInitialized.
EnEspera == {s \in Sagas : call[s].stage = "init" /\ ensayo.espera[s] # 0
                             /\ ~ensayo.intentos[ensayo.espera[s]].finalizado}

UnSoloIntento ==
    /\ Cardinality(EnVueloIniciar) <= 1
    /\ Cardinality(Pendientes) <= 1
    /\ \A s \in EnEspera : ensayo.espera[s] = ensayo.initPromise

\* C32: at most one initialize() is in flight at any time; every caller that
\* finds the service uninitialized or its configuration expired waits for the
\* promise of the one attempt under way (its own when there was none), and goes
\* on or fails as that attempt succeeded or failed.
C32_InitializationCoalesced ==
    /\ []UnSoloIntento
    /\ [][ \A s \in Sagas :
             /\ ( /\ call[s].stage = "idle" /\ call'[s].stage = "init"
                  /\ ~Vigente(ensayo, reloj) ) =>
                     /\ ensayo'.espera[s] \in Pendientes'
                     /\ EnVueloIniciar # {} => ensayo'.espera[s] \in EnVueloIniciar
             /\ ( /\ call[s].stage = "init" /\ call'[s].stage # "init"
                  /\ ensayo.espera[s] # 0 ) =>
                     ( (call'[s].entrada = "rechazo")
                         <=> (ensayo.intentos[ensayo.espera[s]].estado = "error") ) ]_vars

\* C32 witness: the configuration loaded at instant 1 has expired, and the two
\* callers wait for the one reload that is in flight.
C32_Witness ==
    /\ reloj - 1 > CONFIG_TTL_MS
    /\ ensayo.config = "cfg"
    /\ ensayo.lastInitTime = 1
    /\ Len(ensayo.intentos) = 2
    /\ EnVueloIniciar = {2}
    /\ EnEspera = Sagas
    /\ \A s \in Sagas : ensayo.espera[s] = 2

\* The gateway requests of the calls that returned to caller s.
RECURSIVE PeticionesRecibidas(_)
PeticionesRecibidas(r) ==
    IF r = <<>> THEN 0 ELSE r[1].peticiones + PeticionesRecibidas(Tail(r))

\* A call whose ensureInitialized threw has sent nothing and returns a failure.
RechazoSinPeticion ==
    \A s \in Sagas :
        /\ call[s].entrada = "rechazo" => call[s].statuses = <<>> /\ ~call[s].ok
        /\ \A k \in DOMAIN recibido[s] :
              recibido[s][k].entrada = "rechazo" =>
                  ~recibido[s][k].success /\ recibido[s][k].peticiones = 0
        /\ gwReq[s]["CREATE_CUSTOMER"] =
              PeticionesRecibidas(recibido[s]) + Len(call[s].statuses)

\* After a failed initialize() has settled, the service holds nothing.
FalloNoGuardado ==
    ( /\ ensayo.intentos # <<>>
      /\ Pendientes = {}
      /\ Last(ensayo.intentos).estado = "error" ) =>
        /\ ensayo.config = ""
        /\ ~ensayo.axiosInstance
        /\ ensayo.lastInitTime = 0
        /\ ensayo.initPromise = 0

\* C33: an initialize() that finds the record missing, inactive or incomplete
\* fails, also when it is a reload of an expired configuration, and leaves
\* config, axiosInstance and _lastInitTime null; the operation that waited for
\* it returns a failure and sends no gateway request; and the next operation
\* starts a new initialize().
C33_FailedInitializationNotKept ==
    /\ [](RechazoSinPeticion /\ FalloNoGuardado)
    /\ [][ /\ \A i \in EnVueloIniciar :
                ensayo'.intentos[i].estado # "vuelo" =>
                    /\ ConfigDe(ensayo.registro) = "" => ensayo'.intentos[i].estado = "error"
                    /\ ensayo'.intentos[i].estado = "error" =>
                          /\ ensayo'.config = ""
                          /\ ~ensayo'.axiosInstance
                          /\ ensayo'.lastInitTime = 0
           /\ \A s \in Sagas :
                /\ ( /\ call[s].stage = "init" /\ call'[s].stage # "init"
                     /\ ~Cumplida(ensayo, s) ) =>
                        /\ call'[s].stage = "ret"
                        /\ call'[s].entrada = "rechazo"
                /\ ( /\ call[s].stage = "idle" /\ call'[s].stage = "init"
                     /\ ensayo.intentos # <<>>
                     /\ Pendientes = {}
                     /\ Last(ensayo.intentos).estado = "error" ) =>
                        /\ Len(ensayo'.intentos) = Len(ensayo.intentos) + 1
                        /\ Last(ensayo'.intentos).estado = "vuelo" ]_vars

\* C33 witness: the configuration loaded at instant 1 expired and the record is
\* no longer usable; the reload of caller 1 failed, its crearCliente returned the
\* failure with no request sent, the service holds no configuration, and the
\* call of caller 2 has started another initialize().
C33_Witness ==
    /\ ensayo.registro # "completa"
    /\ Len(ensayo.intentos) = 3
    /\ ensayo.intentos[1].estado = "ok"
    /\ ensayo.intentos[2] = [estado |-> "error", finalizado |-> TRUE]
    /\ ensayo.intentos[3].estado = "vuelo"
    /\ ensayo.config = ""
    /\ Len(recibido[1]) = 1
    /\ recibido[1][1].entrada = "rechazo"
    /\ ~recibido[1][1].success
    /\ gwReq[1]["CREATE_CUSTOMER"] = 0
    /\ ensayo.espera[2] = 3

\* ============================================ two checkouts of different buyers
\* Faults in a behaviour of two checkouts that record their payments at the
\* same time.
MaxFallosCobro == 1

\* What checkout s holds after its steps 1 to 12, run with no failure and
\* after those of the checkouts before it: its session, user, customer, card
\* and subscription are rows s, and the gateway issued the ids 3s-2 (customer),
\* 3s-1 (card) and 3s (subscription, in state estado).
LocTrasPaso12(s, estado) ==
    [ LocInit EXCEPT !.sesionOk = TRUE, !.idsesionpas = s, !.idusu = s,
                     !.usuarioEsNuevo = TRUE, !.clienteOk = TRUE, !.idclipas = s,
                     !.idcliext = 3 * s - 2, !.tarjetaId = 3 * s - 1,
                     !.tarjetaApilog = 3 * s - 1, !.idtarjpas = s, !.suscId = 3 * s,
                     !.suscStatus = estado, !.suscApilog = 3 * s, !.idsuscpas = s ]

DniDe(s) == IF s = 1 THEN "D1" ELSE "D2"

\* Table rows i of the tables the steps 1 to 12 of two checkouts write, in
\* the order of the rows: row i of a table with k rows a checkout is of
\* checkout (i - 1) \div k + 1.
ApiLogTrasPaso12 ==
    [ i \in 1..6 |->
        [ run |-> ((i - 1) \div 3) + 1,
          operacion |-> << "CREATE_CUSTOMER", "ASSOCIATE_CARD", "CREATE_SUBSCRIPTION" >>[((i - 1) % 3) + 1],
          esexitoso |-> "S", httpstatuscode |-> 200, actualizado |-> 1 ] ]

AuditoriaTrasPaso12 ==
    [ i \in 1..6 |->
        [ run |-> ((i - 1) \div 3) + 1, accion |-> "API_CALL_SUCCESS", idregistro |-> i ] ]

HistorialTrasPaso12 ==
    [ i \in 1..4 |->
        [ idsesionpas |-> ((i - 1) \div 2) + 1, run |-> ((i - 1) \div 2) + 1,
          accion |-> << "INICIO", "TOKEN_CREADO" >>[((i - 1) % 2) + 1], detalle |-> "" ] ]

\* Two checkouts of the buyers of documents D1 and D2 have gone through their
\* steps 1 to 12, one after the other and with no failure, and are about to
\* record their payments; the register of the day is open.
InitCobro ==
    /\ pc = [s \in Sagas |-> "p13_caja"]
    /\ \E e \in [Sagas -> EstadosSuscripcion] :
         loc = [s \in Sagas |-> LocTrasPaso12(s, e[s])]
    /\ call = [s \in Sagas |-> CallIdle]
    /\ datos = [s \in Sagas |->
                 Pedido(DniDe(s), 100, TokenValido, DeviceValido, PlanValido)]
    /\ formaInsert \in FormasInsert
    /\ budget = MaxFallosCobro
    /\ hoy = 2
    /\ reloj = 0
    /\ requestCount = 6
    /\ rateLimitResetTime = 0
    /\ ventana = [n |-> 6, pasa |-> TRUE, inicio |-> 0]
    /\ recibido = [s \in Sagas |-> <<>>]
    /\ operationCache =
         UNION { { [ timestamp |-> 0, key |-> ClaveCliente(DniDe(s)),
                     result |-> [respId |-> 3 * s - 2, idapilog |-> 3 * s - 2,
                                 respStatus |-> ""] ],
                   [ timestamp |-> 0, key |-> ClaveSuscripcion(3 * s - 2),
                     result |-> [respId |-> 3 * s, idapilog |-> 3 * s,
                                 respStatus |-> loc[s].suscStatus] ] } : s \in Sagas }
    /\ ensayo = EnsayoNulo
    /\ PasarelaSesion =
         [ s \in Sagas |-> [ idusu |-> s, idtranspas |-> 0, dniusu |-> DniDe(s), run |-> s,
                             estsesion |-> "S", montintentado |-> 100 ] ]
    /\ PasarelaSesionHistorial = HistorialTrasPaso12
    /\ usuario = [ s \in Sagas |-> [dniusu |-> DniDe(s), run |-> s] ]
    /\ PasarelaCliente =
         [ s \in Sagas |-> [ idusu |-> s, idcliext |-> 3 * s - 2, dniusu |-> DniDe(s),
                             run |-> s, estado |-> "S" ] ]
    /\ PasarelaTarjeta =
         [ s \in Sagas |-> [ idclipas |-> s, idapilog |-> 3 * s - 1, run |-> s,
                             estado |-> "S", sourceid |-> 3 * s - 1 ] ]
    /\ PasarelaSuscripcion =
         [ s \in Sagas |-> [ idclipas |-> s, idtarjpas |-> s, idmem |-> 0,
                             idapilog |-> 3 * s, run |-> s, idsuscext |-> 3 * s,
                             estsuscripcion |-> "S" ] ]
    /\ PasarelaTransaccion = <<>>
    /\ Caja = << CajaRow(2, "S") >>
    /\ Venta = <<>>
    /\ VentaDetalle = <<>>
    /\ Membresia = <<>>
    /\ PasarelaApiLog = ApiLogTrasPaso12
    /\ PasarelaAuditoria = AuditoriaTrasPaso12
    /\ gwSeq = 6
    /\ gwReq = [s \in Sagas |-> [o \in Ops |-> IF o = "CANCEL_SUBSCRIPTION" THEN 0 ELSE 1]]

\* Steps 13 to 20 of a checkout.
FaseCobro(s) ==
    \/ TransaccionCaja(s)
    \/ TransaccionInsert(s)
    \/ TransaccionSelect(s)
    \/ TransaccionActualizarCaja(s)
    \/ HistorialPago(s)
    \/ CerrarSesionPago(s)
    \/ VentaCaja(s)
    \/ CrearVentaVirtual(s)
    \/ CrearVentaDetalle(s)
    \/ CrearMembresia(s)
    \/ ActualizarTransaccionConVenta(s)

NextCobro == \E s \in Sagas : FaseCobro(s)

SpecCobro == InitCobro /\ [][NextCobro]_vars

\* The rows a checkout uses are rows it inserted itself.
FilasPropias ==
    \A s \in Sagas :
        /\ loc[s].idclipas # 0 => PasarelaCliente[loc[s].idclipas].run = s
        /\ loc[s].idtarjpas # 0 => PasarelaTarjeta[loc[s].idtarjpas].run = s
        /\ loc[s].idsuscpas # 0 => PasarelaSuscripcion[loc[s].idsuscpas].run = s

\* The transaction a session is closed with, and the one a sale is linked to,
\* were inserted by the checkout of the session, of the sale.
TransaccionPropia ==
    /\ \A i \in DOMAIN PasarelaSesion :
          PasarelaSesion[i].idtranspas # 0 =>
              PasarelaTransaccion[PasarelaSesion[i].idtranspas].run = PasarelaSesion[i].run
    /\ \A v \in DOMAIN Venta :
          Venta[v].idtranspas # 0 =>
              PasarelaTransaccion[Venta[v].idtranspas].run = Venta[v].run

\* C34: when the checkouts of two different buyers interleave, the session of
\* each is closed with the transaction the same checkout inserted, its sale is
\* linked to that transaction, and the customer, card and subscription rows it
\* uses are its own.
C34_RecordsStayWithTheirSaga == FilasPropias /\ TransaccionPropia

\* ---------------------------------------------------------------------------
\* The history of a session
\* ---------------------------------------------------------------------------

\* The entries of session i, oldest first.
EntradasDe(i) == SelectSeq(PasarelaSesionHistorial, LAMBDA h : h.idsesionpas = i)

\* The two entries that end a run.
Terminales == {"PAGO_EXITOSO", "PAGO_FALLIDO"}

\* The positions of the terminal entries of a history.
PosTerminales(h) == { k \in DOMAIN h : h[k].accion \in Terminales }

\* The steps of the saga that call registrarHistorialSesion.
PasosHistorial == {"p2_historialInicio", "p10_historialToken", "p15_historialPago", "catch"}

\* No INSERT of registrarHistorialSesion failed in the run of s: the function
\* swallows the failure and the entry is then missing.
HistorialSinFallo(s) == loc[s].fallos \cap PasosHistorial = {}

\* INICIO is the first entry of the session of s, and only the first.
InicioPrimero(s) ==
    LET h == EntradasDe(loc[s].idsesionpas) IN
    /\ pc[s] # "p2_historialInicio" => h # <<>> /\ h[1].accion = "INICIO"
    /\ \A k \in DOMAIN h : k > 1 => h[k].accion # "INICIO"

\* The session of s has at most one terminal entry, which is its last entry,
\* and a finished run has one.
UnTerminalAlFinal(s) ==
    LET h == EntradasDe(loc[s].idsesionpas) IN
    /\ Cardinality(PosTerminales(h)) <= 1
    /\ PosTerminales(h) \subseteq {Len(h)}
    /\ pc[s] = "done" => PosTerminales(h) = {Len(h)}

HistorialOrdenado ==
    \A s \in Sagas :
        (loc[s].idsesionpas # 0 /\ HistorialSinFallo(s)) =>
            InicioPrimero(s) /\ UnTerminalAlFinal(s)

\* Every step leaves the entries already written as they are, before any new one.
SoloAgrega ==
    /\ Len(PasarelaSesionHistorial') >= Len(PasarelaSesionHistorial)
    /\ SubSeq(PasarelaSesionHistorial', 1, Len(PasarelaSesionHistorial))
           = PasarelaSesionHistorial

Objeto(props) == [tipo |-> "object", props |-> props]

\* A JavaScript array.
Arreglo(items) == [tipo |-> "array", items |-> items]

MAX_DEPTH == Texto(<< "[", "M", "A", "X", "_", "D", "E", "P", "T", "H", "]" >>)

EsSensible(key) == \E field \in SensitiveFields : Includes(ToLowerCase(key), field)

\* maskSensitiveData(data, depth): a value that is not an object is returned as
\* it is, an array is mapped item by item, and in an object a property whose
\* name is not sensitive and whose value is an object or an array is masked by
\* the recursive call.
RECURSIVE MaskSensitiveDataEn(_, _)
MaskSensitiveDataEn(data, depth) ==
    IF depth > 10 THEN MAX_DEPTH
    ELSE IF data.tipo \notin {"object", "array"} THEN data
    ELSE IF data.tipo = "array"
    THEN Arreglo([i \in DOMAIN data.items |-> MaskSensitiveDataEn(data.items[i], depth + 1)])
    ELSE Objeto([i \in DOMAIN data.props |->
            << data.props[i][1],
               IF EsSensible(data.props[i][1]) \/ data.props[i][2].tipo \notin {"object", "array"}
               THEN MaskValue(data.props[i][1], data.props[i][2])
               ELSE MaskSensitiveDataEn(data.props[i][2], depth + 1) >>])

\* Names of properties that hold an object or an array.
NombresContenedor == { << "n", "o", "t", "a" >>, << "d", "a", "t", "o", "s" >> }

\* One value under one name, alone, inside an object, inside an array, and
\* arrays of values and of objects.
EstructurasMascara ==
    { Objeto(<< <<n, v>> >>) : n \in NombresMascara, v \in ValoresMascara }
    \cup { Objeto(<< <<m, Objeto(<< <<nv[1], nv[2]>> >>)>> >>) :
              m \in NombresContenedor, nv \in NombresMascara \X ValoresMascara }
    \cup { Objeto(<< <<m, Arreglo(<< v >>)>> >>) : m \in NombresContenedor, v \in ValoresMascara }
    \cup { Arreglo(<< vw[1], vw[2] >>) : vw \in ValoresMascara \X ValoresMascara }
    \cup { Arreglo(<< Objeto(<< <<n, v>> >>) >>) : n \in NombresMascara, v \in ValoresMascara }

InitEstructura ==
    /\ InitQuieto
    /\ \E p \in EstructurasMascara :
         ensayo = [fn |-> "maskSensitiveData(data, depth)", data |-> p,
                   masked |-> Objeto(<<>>), hecho |-> FALSE]

EnmascararEstructura ==
    /\ ensayo.fn = "maskSensitiveData(data, depth)"
    /\ ~ensayo.hecho
    /\ ensayo' = [ensayo EXCEPT !.masked = MaskSensitiveDataEn(ensayo.data, 0), !.hecho = TRUE]
    /\ UNCHANGED tQuieto

NextEstructura == EnmascararEstructura

SpecEstructura == InitEstructura /\ [][NextEstructura]_vars

\* Every text of the structure en that matches the card-number pattern is, at
\* the same place of the structure sal, its first six and last four digits with
\* mask characters between them.
RECURSIVE TarjetasEnmascaradas(_, _)
TarjetasEnmascaradas(en, sal) ==
    CASE en.tipo = "string" ->
            CardPattern(SinEspaciosNiGuiones(en.texto)) =>
                /\ sal.tipo = "string"
                /\ SeisYCuatro(SinEspaciosNiGuiones(en.texto), sal.texto)
      [] en.tipo = "array" ->
            /\ sal.tipo = "array"
            /\ DOMAIN sal.items = DOMAIN en.items
            /\ \A i \in DOMAIN en.items : TarjetasEnmascaradas(en.items[i], sal.items[i])
      [] en.tipo = "object" ->
            /\ sal.tipo = "object"
            /\ DOMAIN sal.props = DOMAIN en.props
            /\ \A i \in DOMAIN en.props :
                  TarjetasEnmascaradas(en.props[i][2], sal.props[i][2])
      [] OTHER -> TRUE

\* C36: maskSensitiveData masks every string value that matches the 13-19 digit
\* card-number pattern wherever it occurs (object field of any name, nested
\* object, array element), keeping only its first 6 and last 4 digits.
C36_CardPatternMaskedEverywhere ==
    ensayo.hecho => TarjetasEnmascaradas(ensayo.data, ensayo.masked)

\* No name of the structure is one of the sensitive names.
RECURSIVE SinNombreSensible(_)
SinNombreSensible(en) ==
    CASE en.tipo = "array" -> \A i \in DOMAIN en.items : SinNombreSensible(en.items[i])
      [] en.tipo = "object" ->
            \A i \in DOMAIN en.props :
                ~EsSensible(en.props[i][1]) /\ SinNombreSensible(en.props[i][2])
      [] OTHER -> TRUE

\* No array of the structure has a text as an item.
RECURSIVE SinTextoEnArreglo(_)
SinTextoEnArreglo(en) ==
    CASE en.tipo = "array" ->
            \A i \in DOMAIN en.items :
                en.items[i].tipo # "string" /\ SinTextoEnArreglo(en.items[i])
      [] en.tipo = "object" -> \A i \in DOMAIN en.props : SinTextoEnArreglo(en.props[i][2])
      [] OTHER -> TRUE

\* What holds: a card number that is the value of a property whose name is not
\* sensitive is masked at any depth, inside objects and objects of arrays.
TarjetaEnPropiedadEnmascarada ==
    (ensayo.hecho /\ SinNombreSensible(ensayo.data) /\ SinTextoEnArreglo(ensayo.data)) =>
        TarjetasEnmascaradas(ensayo.data, ensayo.masked)

\* In a structure with no sensitive name, every card number is masked, the
\* items of arrays included.
TarjetaEnArregloEnmascarada ==
    (ensayo.hecho /\ SinNombreSensible(ensayo.data)) =>
        TarjetasEnmascaradas(ensayo.data, ensayo.masked)

\* ------------------------------------------------------------------------
\* The payloads the saga stores
\* ------------------------------------------------------------------------

\* JSON.stringify(v): the text of the value v, which names every property and
\* every item of v.
JsonTexto(v) == [tipo |-> "json", de |-> v]

SqlNull == [tipo |-> "null"]

\* A property the gateway or the caller left out (undefined).
Ausente == [tipo |-> "undefined"]

\* The properties of an object literal whose value is not undefined:
\* JSON.stringify omits the others.
Definidas(props) == SelectSeq(props, LAMBDA p : p[2].tipo # "undefined")

\* The card of a gateway response: absent, with the number in full or with
\* the number as the gateway prints it.
TarjetasDeRespuesta ==
    { Ausente }
    \cup { Objeto(<< << CARD_NUMBER, n >>, << << "b", "r", "a", "n", "d" >>, Texto(<< "v", "i", "s", "a" >>) >> >>) :
             n \in { Texto(Tarjeta16), Texto(<< "4", "1", "1", "1", "1", "1", "X", "X", "X", "X", "X", "X", "1", "1", "1", "1" >>) } }

\* crearSuscripcion: the suscripcion of its result, built from response.data
SuscripcionesDeRespuesta ==
    { Objeto(Definidas(<< << << "i", "d" >>, Texto(id) >>, << << "s", "t", "a", "t", "u", "s" >>, Texto(st) >>,
                          << << "p", "l", "a", "n", "_", "i", "d" >>, Texto(<< "p", "l", "n", "_", "1" >>) >>, << << "c", "a", "r", "d" >>, c >> >>)) :
        id \in { << "s", "u", "b", "_", "1" >>, << "s", "u", "b", "_", "2" >> }, st \in { << "a", "c", "t", "i", "v", "e" >>, << "t", "r", "i", "a", "l" >>, << "p", "a", "s", "t", "_", "d", "u", "e" >>,
                                << "c", "a", "n", "c", "e", "l", "l", "e", "d" >> },
        c \in TarjetasDeRespuesta }

\* The deviceSessionId of the request, which the saga does not validate.
DeviceSessionIds == { Texto(<< "k", "R", "1", "M", "i", "Q", "h", "z", "2", "o", "t", "d" >>), Texto(Tarjeta16) }

\* The datosAdicionales of the four registrarHistorialSesion calls of the saga.
DatosAdicionalesDeSaga ==
    { Objeto(<< << << "d", "e", "v", "i", "c", "e", "S", "e", "s", "s", "i", "o", "n", "I", "d" >>, d >>, << << "p", "l", "a", "n", "I", "d" >>, Texto(<< "p", "l", "n", "_", "1" >>) >> >>) :
        d \in DeviceSessionIds }
    \cup { Objeto(<< << << "c", "a", "r", "d", "I", "d" >>, Texto(<< "c", "a", "r", "d", "_", "1" >>) >> >>) }
    \cup { Objeto(<< << << "i", "d", "s", "u", "s", "c", "p", "a", "s" >>, Numero(i) >>, << << "i", "d", "t", "r", "a", "n", "s", "p", "a", "s" >>, Numero(j) >> >>) :
             i \in 1..2, j \in 1..2 }
    \cup { Objeto(<< << << "s", "t", "a", "c", "k" >>, Texto(<< "E", "r", "r", "o", "r" >>) >> >>) }

\* The bodies the service sends: cardData of asociarTarjeta and
\* subscriptionData of crearSuscripcion.
BodiesEnviados ==
    { Objeto(<< << << "t", "o", "k", "e", "n", "_", "i", "d" >>, Texto(tk) >>, << << "d", "e", "v", "i", "c", "e", "_", "s", "e", "s", "s", "i", "o", "n", "_", "i", "d" >>, d >> >>) :
        tk \in { << "t", "o", "k", "_", "1", "a", "b", "c", "d", "e", "f" >>, << "t", "o", "k", "_", "2" >> }, d \in DeviceSessionIds }
    \cup { Objeto(Definidas(<< << << "p", "l", "a", "n", "_", "i", "d" >>, Texto(<< "p", "l", "n", "_", "1" >>) >>, << << "s", "o", "u", "r", "c", "e", "_", "i", "d" >>, src >> >>)) :
             src \in { Ausente, Texto(<< "c", "a", "r", "d", "_", "1" >>) } }

\* The bodies the service receives: response.data, or the error of the gateway.
BodiesRecibidos ==
    SuscripcionesDeRespuesta
    \cup { Objeto(<< << << "E", "r", "r", "o", "r" >>, Texto(<< "E", "r", "r", "o", "r" >>) >> >>) }

\* registrarTransaccion of the controller: the jsonresponse replacement
JsonresponseDeTransaccion(jsonresponse) == JsonTexto(jsonresponse)

\* registrarHistorialSesion of the controller: the datosadicionales replacement
DatosadicionalesDeHistorial(datosAdicionales) == JsonTexto(datosAdicionales)

\* _registrarApiLogInicio: the bodyenviado replacement
BodyenviadoDeApiLog(bodyenviado) == JsonTexto(MaskSensitiveDataEn(bodyenviado, 0))

\* _registrarApiLogFin: the bodyrecibido replacement
BodyrecibidoDeApiLog(bodyrecibido) == JsonTexto(MaskSensitiveDataEn(bodyrecibido, 0))

\* The columns of the saga that hold a payload, each with the payloads the
\* saga passes for it.
PayloadsDeSaga ==
    ({"PasarelaTransaccion.jsonresponse"} \X SuscripcionesDeRespuesta)
    \cup ({"PasarelaSesionHistorial.datosadicionales"} \X DatosAdicionalesDeSaga)
    \cup ({"PasarelaApiLog.bodyenviado"} \X BodiesEnviados)
    \cup ({"PasarelaApiLog.bodyrecibido"} \X BodiesRecibidos)

InitPersistir ==
    /\ InitQuieto
    /\ \E cp \in PayloadsDeSaga :
         ensayo = [fn |-> "persistir", columna |-> cp[1], payload |-> cp[2],
                   escrito |-> SqlNull, hecho |-> FALSE]

\* One INSERT or UPDATE writes the column from its payload.
Persistir(columna, valor) ==
    /\ ensayo.fn = "persistir"
    /\ ensayo.columna = columna
    /\ ~ensayo.hecho
    /\ ensayo' = [ensayo EXCEPT !.escrito = valor, !.hecho = TRUE]
    /\ UNCHANGED tQuieto

PersistirJsonresponse ==
    Persistir("PasarelaTransaccion.jsonresponse", JsonresponseDeTransaccion(ensayo.payload))

PersistirDatosadicionales ==
    Persistir("PasarelaSesionHistorial.datosadicionales",
              DatosadicionalesDeHistorial(ensayo.payload))

PersistirBodyenviado ==
    Persistir("PasarelaApiLog.bodyenviado", BodyenviadoDeApiLog(ensayo.payload))

PersistirBodyrecibido ==
    Persistir("PasarelaApiLog.bodyrecibido", BodyrecibidoDeApiLog(ensayo.payload))

NextPersistir ==
    \/ PersistirJsonresponse
    \/ PersistirDatosadicionales
    \/ PersistirBodyenviado
    \/ PersistirBodyrecibido

SpecPersistir == InitPersistir /\ [][NextPersistir]_vars

\* What is written is the text of the masked payload.
EscritoEnmascarado ==
    ensayo.escrito = JsonTexto(MaskSensitiveDataEn(ensayo.payload, 0))

\* C37: every payload the saga persists has passed through maskSensitiveData
\* first: the jsonresponse of a transaction, the datosadicionales of a history
\* entry and the bodies of an API log entry are never written in raw form.
C37_PersistedPayloadsAreMasked == ensayo.hecho => EscritoEnmascarado

\* What holds: the bodies of the API log are written masked.
BodiesDeApiLogEnmascarados ==
    (ensayo.hecho /\ ensayo.columna \in {"PasarelaApiLog.bodyenviado", "PasarelaApiLog.bodyrecibido"})
        => EscritoEnmascarado

\* ------------------------------------------------------------------------
\* A second checkout of the same buyer and plan, after the first
\* ------------------------------------------------------------------------

\* Failures of a query or of a gateway call over the two checkouts.
MaxFallosSegunda == 1

\* The buyer of document D1 sends the same request twice.
InitSegunda ==
    /\ pc = [s \in Sagas |-> "p1_crearSesion"]
    /\ loc = [s \in Sagas |-> LocInit]
    /\ call = [s \in Sagas |-> CallIdle]
    /\ \E m \in Montos :
         datos = [s \in Sagas |-> Pedido("D1", m, TokenValido, DeviceValido, PlanValido)]
    /\ formaInsert \in FormasInsert
    /\ budget = MaxFallosSegunda
    /\ hoy = 2
    /\ InitServicio
    /\ ensayo = EnsayoNulo
    /\ InitTablas

\* Time passes between the two requests.
EntreCompras == Done(1) /\ pc[2] = "p1_crearSesion" /\ TickCache

\* The second request arrives when the first has been answered.
NextSegunda ==
    \/ Saga(1)
    \/ Done(1) /\ Saga(2)
    \/ EntreCompras

SpecSegunda == InitSegunda /\ [][NextSegunda]_vars

\* No two rows of the table written by different runs carry the same value
\* in the column.
SinRepetirEntreRuns(tabla, columna) ==
    \A i, j \in DOMAIN tabla :
        tabla[i].run # tabla[j].run => tabla[i][columna] # tabla[j][columna]

\* C38: two saga runs never record subscriptions or transactions for the same
\* external subscription id, also when the same buyer purchases the same plan
\* twice within 5 minutes.
C38_OneRunPerExternalSubscription ==
    /\ SinRepetirEntreRuns(PasarelaSuscripcion, "idsuscext")
    /\ SinRepetirEntreRuns(PasarelaTransaccion, "idtransext")

\* What holds: the transactions of two runs whose crearSuscripcion both sent
\* their request to the gateway carry different external ids.
TransaccionesDeDosPeticiones ==
    (\A s \in Sagas : gwReq[s]["CREATE_SUBSCRIPTION"] > 0) =>
        SinRepetirEntreRuns(PasarelaTransaccion, "idtransext")

\* ------------------------------------------------------------------------
\* Two registrars and the end of the day
\* ------------------------------------------------------------------------

\* No register, or the open register of today (day 2).
InitCierre == InitCajaCon({ <<>>, << CajaRow(2, "S") >> })

\* The day may end while the two registrars work.
NextCierre ==
    \/ CambioDeDia
    \/ \E s \in Sagas : Registrar(s)

SpecCierre == InitCierre /\ [][NextCierre]_vars

\* A step leaves the count and the totals of every closed register as they were.
CerradaIntacta ==
    \A i \in DOMAIN Caja :
        Caja[i].estcaja = "C" => TotalesTras(i) = TotalesDe(Caja[i])

\* C39: once a register has been closed (estcaja = 'C') its transaction count
\* and totals never change again, also when a saga obtained the register before
\* it was closed and applies its amount after a day change.
C39_ClosedRegisterFrozen == [][CerradaIntacta]_vars

\* What holds: a step leaves the count and the totals of every closed register
\* that no registrar obtained before it was closed as they were.
CerradaSinTitularIntacta ==
    [][ \A i \in DOMAIN Caja :
          (Caja[i].estcaja = "C" /\ \A s \in Sagas : loc[s].idcajaTx # i) =>
              TotalesTras(i) = TotalesDe(Caja[i]) ]_vars

\* ------------------------------------------------------------------------
\* The register of the sale
\* ------------------------------------------------------------------------

\* One checkout records its payment and its sale (steps 13 to 20) while the day
\* may end.
NextVenta ==
    \/ CambioDeDia
    \/ \E s \in Solo : FaseCobro(s)

SpecVenta == InitCobro /\ [][NextVenta]_vars

\* Every sale linked to a transaction carries the register of that transaction.
VentaEnCajaDeTransaccion ==
    \A v \in DOMAIN Venta :
        Venta[v].idtranspas # 0 =>
            Venta[v].idcaja = PasarelaTransaccion[Venta[v].idtranspas].idcaja

\* C40: for every completed saga run the sale is booked on the same register as
\* its transaction: the register id of the sale equals the register id stored on
\* the transaction it is linked to, also with a day change or a failed register
\* lookup between recording the transaction and creating the sale.
C40_SaleOnRegisterOfTransaction ==
    (\E s \in Solo : pc[s] = "done") => VentaEnCajaDeTransaccion

\* The same with no failed query: the day change alone.
VentaEnCajaSinFallo ==
    (budget = MaxFallosCobro /\ \E s \in Solo : pc[s] = "done") => VentaEnCajaDeTransaccion

\* What holds: with no failed query and no day change the sale and its
\* transaction carry the same register.
VentaEnCajaMismoDia ==
    (budget = MaxFallosCobro /\ hoy = 2) => VentaEnCajaDeTransaccion
====
